---- MODULE Spec2Model ----
(***************************************************************************)
(* The dump rewriter of the anonymiser CLI: transformDumpLiterals and the  *)
(* functions it calls (matchInsertAt, inferTableColumnsFromDump,           *)
(* transformValuesList, transformSingleTuple, splitValues, sqlEscape,      *)
(* anonymizeByCharClass, hashString32, mulberry32, randomInt), and the run *)
(* command around it: the confirmation prompt, the loading of the config,  *)
(* runAnonymisation, runDirectMysql, buildDumpSql and the expressions of   *)
(* getTypeAwareExpression, evaluated as the database evaluates them.       *)
(*                                                                         *)
(* A JavaScript string is a sequence of UTF-16 code units; it is modelled  *)
(* as a sequence of character codes.  A 32-bit word is the pair <<hi, lo>> *)
(* of its 16-bit halves, so that no intermediate value leaves the integer  *)
(* range of the model checker while every result is the one the 32-bit     *)
(* operators of JavaScript produce.                                        *)
(***************************************************************************)
EXTENDS Integers, Sequences, FiniteSets, TLC

VARIABLES
    \* transformDumpLiterals
    text,            \* dumpText
    tables,          \* config.tables
    truncateTables,  \* the Set of tables marked 'truncate'
    updateSpec,      \* table -> column actions
    tableCols,       \* the Map returned by inferTableColumnsFromDump
    i,               \* the cursor
    out,             \* the pushed strings, concatenated
    \* anonymizeByCharClass
    input,           \* the value to anonymize
    seedKey,         \* `${table}.${col}`
    rng,             \* the closure variable a of mulberry32
    anon,            \* the local out
    k,               \* the loop index
    \* both
    pc,              \* the position in the function
    \* the calls of anonymizeByCharClass made so far
    calls,           \* their number
    history,         \* <<input, seedKey>> -> the value the first such call returned
    \* transformSingleTuple and splitValues
    tupleIn,         \* tupleSrc: the tuple, parentheses included
    tokenList,       \* tokens: the tokens pushed so far
    cursor,          \* the index i of splitValues into the inside of the tuple
    tupleOut,        \* the string transformSingleTuple returns
    \* the run command, runAnonymisation and runDirectMysql
    options,         \* the command line options
    proceed,         \* the answer to the confirmation prompt
    rawConfig,       \* what the config file exports
    config,          \* the parsed configuration
    conn,            \* the connection to the database
    sent,            \* the statements passed to conn.query, in order
    database,        \* the database: table -> rows
    written,         \* what was written to the output file
    exitCode,        \* process.exitCode
    tableIdx         \* the position in Object.entries(config.tables)

vars == <<text, tables, truncateTables, updateSpec, tableCols, i, out,
          input, seedKey, rng, anon, k, pc, calls, history,
          tupleIn, tokenList, cursor, tupleOut,
          options, proceed, rawConfig, config, conn, sent, database, written,
          exitCode, tableIdx>>
scanVars == <<text, tables, truncateTables, updateSpec, tableCols, i, out>>
coreVars == <<input, seedKey, rng, anon, k, calls, history>>
tupleVars == <<tupleIn, tokenList, cursor, tupleOut>>
cliVars == <<options, proceed, rawConfig, config, conn, sent, database, written,
             exitCode, tableIdx>>

\* The command has not been started.
CliIdle ==
    /\ options = [direct |-> FALSE]
    /\ proceed = "unasked"
    /\ rawConfig = <<>>
    /\ config = <<>>
    /\ conn = "none"
    /\ sent = <<>>
    /\ database = <<>>
    /\ written = <<>>
    /\ exitCode = 0
    /\ tableIdx = 0

(***************************************************************************)
(* Characters.                                                             *)
(***************************************************************************)
Ascii32to95 == " !\"#$%&'()*+,-./0123456789:;<=>?@ABCDEFGHIJKLMNOPQRSTUVWXYZ[\\]^_"
Ascii97to126 == "abcdefghijklmnopqrstuvwxyz{|}~"

\* charCodeAt of a one-character string.
Ord(c) ==
    IF c = "\t" THEN 9
    ELSE IF c = "\n" THEN 10
    ELSE IF c = "\r" THEN 13
    ELSE IF \E p \in 1..Len(Ascii32to95) : SubSeq(Ascii32to95, p, p) = c
         THEN 31 + (CHOOSE p \in 1..Len(Ascii32to95) : SubSeq(Ascii32to95, p, p) = c)
         ELSE 96 + (CHOOSE p \in 1..Len(Ascii97to126) : SubSeq(Ascii97to126, p, p) = c)

\* The code units of a string literal.
Text(s) == [p \in 1..Len(s) |-> Ord(SubSeq(s, p, p))]

QUOTE == Ord("'")
BSLASH == Ord("\\")
LPAREN == Ord("(")
RPAREN == Ord(")")
COMMA == Ord(",")
SEMI == Ord(";")
DOT == Ord(".")
BTICK == 96
NOCHAR == 0 - 1

\* /\s/ on the characters of the model's alphabet: tab, LF, VT, FF, CR, space.
IsSpace(c) == c \in {9, 10, 11, 12, 13, 32}

\* /\w/
IsWord(c) == \/ (c >= 48 /\ c <= 57)
             \/ (c >= 65 /\ c <= 90)
             \/ (c >= 97 /\ c <= 122)
             \/ c = 95

\* The classes of anonymizeByCharClass: [0-9], [A-Z], [a-z].
IsDigit(ch) == ch >= 48 /\ ch <= 57
IsUpper(ch) == ch >= 65 /\ ch <= 90
IsLower(ch) == ch >= 97 /\ ch <= 122

\* Canonicalisation of the /i flag on ASCII letters.
ToUpper(c) == IF c >= 97 /\ c <= 122 THEN c - 32 ELSE c

\* text.slice(from, to) with 0-based, end-exclusive offsets.
Slice(s, from, to) == SubSeq(s, from + 1, to)

\* text[p] with a 0-based offset; NOCHAR stands for '' past the end.
At(s, p) == IF p >= 0 /\ p < Len(s) THEN s[p + 1] ELSE NOCHAR

(***************************************************************************)
(* 32-bit words as <<hi, lo>>.                                             *)
(***************************************************************************)
H == 2^16

RECURSIVE Xor16(_, _)
Xor16(a, b) ==
    IF a = 0 THEN b
    ELSE IF b = 0 THEN a
    ELSE 2 * Xor16(a \div 2, b \div 2) + ((a + b) % 2)

RECURSIVE Or16(_, _)
Or16(a, b) ==
    IF a = 0 THEN b
    ELSE IF b = 0 THEN a
    ELSE 2 * Or16(a \div 2, b \div 2) + (IF a % 2 = 1 \/ b % 2 = 1 THEN 1 ELSE 0)

Xor32(a, b) == <<Xor16(a[1], b[1]), Xor16(a[2], b[2])>>

\* t | c for a constant c below 2^16
OrLow(a, c) == <<a[1], Or16(a[2], c)>>

\* (a + b) mod 2^32
Add32(a, b) ==
    LET lo == a[2] + b[2]
    IN  <<(a[1] + b[1] + lo \div H) % H, lo % H>>

\* (a << n) mod 2^32
Shl32(a, n) ==
    IF n >= 16
    THEN <<(a[2] * 2^(n - 16)) % H, 0>>
    ELSE <<((a[1] * 2^n) % H) + (a[2] \div 2^(16 - n)), (a[2] * 2^n) % H>>

\* a >>> n, 0 < n < 16
Shr32(a, n) == <<a[1] \div 2^n, (a[1] % 2^n) * 2^(16 - n) + a[2] \div 2^n>>

\* The product of two 16-bit numbers as <<hi, lo>>.
Mul16(x, y) ==
    LET p1 == (x \div 256) * y
        p0 == (x % 256) * y
        low == (p1 % 256) * 256 + p0
    IN  <<(p1 \div 256 + low \div H) % H, low % H>>

\* Math.imul: the low 32 bits of the product.
Imul(a, b) ==
    LET ll == Mul16(a[2], b[2])
        cross == (Mul16(a[1], b[2])[2] + Mul16(a[2], b[1])[2]) % H
    IN  <<(ll[1] + cross) % H, ll[2]>>

(***************************************************************************)
(* Loops.  A while/for loop of the source is given by its body (one        *)
(* iteration, a function from loop state to loop state) and its exit test; *)
(* Loop applies the body until the exit test holds.  n bounds the number   *)
(* of iterations from above (every loop here advances an offset into a     *)
(* finite string); the iterations are grouped in halves only to keep the   *)
(* depth of evaluation logarithmic in n.                                   *)
(***************************************************************************)
RECURSIVE Loop(_, _, _, _, _)
Loop(Body(_, _), Exit(_, _), c, st, n) ==
    IF Exit(c, st) THEN st
    ELSE IF n <= 1 THEN Body(c, st)
    ELSE Loop(Body, Exit, c, Loop(Body, Exit, c, st, n \div 2), n - n \div 2)

\* The concatenation of the strings ss[lo..hi] (Array.prototype.join('')).
RECURSIVE ConcatRange(_, _, _)
ConcatRange(ss, lo, hi) ==
    IF lo > hi THEN <<>>
    ELSE IF lo = hi THEN ss[lo]
    ELSE LET mid == (lo + hi) \div 2
         IN  ConcatRange(ss, lo, mid) \o ConcatRange(ss, mid + 1, hi)

\* ss.join(sep)
Join(ss, sep) ==
    ConcatRange([p \in 1..Len(ss) |-> IF p = 1 THEN ss[p] ELSE sep \o ss[p]], 1, Len(ss))

\* The offset of the first character at or after p that does not satisfy P,
\* or s.length: where a greedy run such as \s* or \w+ started at p ends.
RunEnd(P(_), s, p) ==
    IF p >= Len(s) THEN p
    ELSE CHOOSE q \in p..Len(s) :
             /\ q = Len(s) \/ ~P(s[q + 1])
             /\ \A r \in p..(q - 1) : P(s[r + 1])

\* s.indexOf(c, p), or -1
IndexOf(s, c, p) ==
    IF \E q \in p..(Len(s) - 1) : s[q + 1] = c
    THEN CHOOSE q \in p..(Len(s) - 1) :
             /\ s[q + 1] = c
             /\ \A r \in p..(q - 1) : s[r + 1] # c
    ELSE 0 - 1

\* s.lastIndexOf(c), or -1
LastIndexOf(s, c) ==
    IF \E q \in 0..(Len(s) - 1) : s[q + 1] = c
    THEN CHOOSE q \in 0..(Len(s) - 1) :
             /\ s[q + 1] = c
             /\ \A r \in (q + 1)..(Len(s) - 1) : s[r + 1] # c
    ELSE 0 - 1

(***************************************************************************)
(* Anonymization core.                                                     *)
(***************************************************************************)
\* h = (h + ((h << 1) + (h << 4) + (h << 7) + (h << 8) + (h << 24))) >>> 0
FnvMix(h) ==
    Add32(h, Add32(Add32(Add32(Add32(Shl32(h, 1), Shl32(h, 4)), Shl32(h, 7)),
                         Shl32(h, 8)), Shl32(h, 24)))

\* The for loop of hashString32 on the loop state [h, i].
HashBody(s, st) ==
    [h |-> FnvMix(<<st.h[1], Xor16(st.h[2], s[st.i + 1])>>), i |-> st.i + 1]

HashExit(s, st) == ~(st.i < Len(s))

\* FNV-1a 32-bit, 0x811c9dc5 = <<0x811c, 0x9dc5>>
hashString32(s) ==
    Loop(HashBody, HashExit, s, [h |-> <<33052, 40389>>, i |-> 0], Len(s)).h

\* a += 0x6d2b79f5: the closure variable is a double and is never wrapped,
\* so its high half grows beyond 16 bits; bitwise operators read it mod 2^32.
MulberryAdvance(a) ==
    LET lo == a[2] + 31221
    IN  <<a[1] + 27947 + lo \div H, lo % H>>

\* The unsigned numerator of one draw: rng() = MulberryOut(a) / 4294967296
\* for the advanced closure variable a.
\* let t = Math.imul(a ^ (a >>> 15), 1 | a)
Mulberry1(t) == Imul(Xor32(t, Shr32(t, 15)), OrLow(t, 1))
\* t ^= t + Math.imul(t ^ (t >>> 7), 61 | t)
Mulberry2(t) == Xor32(t, Add32(t, Imul(Xor32(t, Shr32(t, 7)), OrLow(t, 61))))
\* (t ^ (t >>> 14)) >>> 0
Mulberry3(t) == Xor32(t, Shr32(t, 14))
MulberryOut(a) == Mulberry3(Mulberry2(Mulberry1(<<a[1] % H, a[2]>>)))

\* A variant of randomInt whose range is one too wide: (max - min + 2).
randomIntOffByOne(v, min, max) ==
    LET n == max - min + 2
    IN  (v[1] * n + (v[2] * n) \div H) \div H + min

\* Math.floor(rng() * (max - min + 1)) + min, for the draw rng() = v / 2^32
randomInt(v, min, max) ==
    LET n == max - min + 1
    IN  (v[1] * n + (v[2] * n) \div H) \div H + min

\* String.fromCharCode(base + randomInt(rng, 0, n)) when the call of rng()
\* has advanced the generator state to a2: <<character, generator state>>
Draw(base, n, a2) == <<base + randomInt(MulberryOut(a2), 0, n), a2>>

\* One iteration of the for loop of anonymizeByCharClass on the character
\* ch with generator state a: <<character appended to out, generator state>>
AnonChar(ch, a) ==
    IF ch >= 48 /\ ch <= 57 THEN Draw(48, 9, MulberryAdvance(a))
    ELSE IF ch >= 65 /\ ch <= 90 THEN Draw(65, 25, MulberryAdvance(a))
    ELSE IF ch >= 97 /\ ch <= 122 THEN Draw(97, 25, MulberryAdvance(a))
    ELSE <<ch, a>>

\* A variant of AnonBody without the final else branch (out += ch): a
\* character that is no digit and no ASCII letter is left out.
AnonBodyDropOther(s, st) ==
    IF (s[st.i + 1] >= 48 /\ s[st.i + 1] <= 57)
           \/ (s[st.i + 1] >= 65 /\ s[st.i + 1] <= 90)
           \/ (s[st.i + 1] >= 97 /\ s[st.i + 1] <= 122)
    THEN [out |-> Append(st.out, AnonChar(s[st.i + 1], st.a)[1]),
          a |-> AnonChar(s[st.i + 1], st.a)[2], i |-> st.i + 1]
    ELSE [st EXCEPT !.i = st.i + 1]

AnonAppend(st, r) == [out |-> Append(st.out, r[1]), a |-> r[2], i |-> st.i + 1]

AnonBody(s, st) == AnonAppend(st, AnonChar(s[st.i + 1], st.a))

AnonExit(s, st) == ~(st.i < Len(s))

\* The seed of the generator: hashString32(`${input}|${seedKey}`)
Seed(s, key) == hashString32(s \o <<Ord("|")>> \o key)

anonymizeByCharClass(s, key) ==
    Loop(AnonBody, AnonExit, s, [out |-> <<>>, a |-> Seed(s, key), i |-> 0],
         Len(s)).out

(***************************************************************************)
(* matchInsertAt.                                                          *)
(***************************************************************************)
KwInsert == Text("INSERT")
KwInto == Text("INTO")
KwValues == Text("VALUES")

Null == [null |-> TRUE]

\* A keyword of the regular expression at offset p, under the /i flag.
MatchWord(s, p, kw) ==
    /\ p + Len(kw) <= Len(s)
    /\ \A j \in 1..Len(kw) : ToUpper(s[p + j]) = kw[j]

IsNotBtick(c) == c # BTICK

\* (?:`[^`]+`|\w+) at offset p: the offset after the identifier, or -1.
MatchIdent(s, p) ==
    IF At(s, p) = BTICK
    THEN LET q == RunEnd(IsNotBtick, s, p + 1)
         IN  IF q > p + 1 /\ q < Len(s) THEN q + 1 ELSE 0 - 1
    ELSE IF IsWord(At(s, p)) THEN RunEnd(IsWord, s, p)
    ELSE 0 - 1

\* The regular expression of matchInsertAt, sticky at pos:
\*   INSERT\s+INTO\s+((?:`[^`]+`|\w+)(?:\.(?:`[^`]+`|\w+))?)\s*(?:\(([^)]+)\))?\s+VALUES\s*
\* Null, or the offsets of group 1, of group 2 (when it took part) and of
\* the end of the match (re.lastIndex).  The expression is matched left to
\* right; each operator below matches the rest of it from the offsets
\* already found.

\* VALUES\s* at offset v, after a column list ending at r
MatchValuesAfterColumns(s, identStart, identEnd, w, r, v) ==
    IF ~MatchWord(s, v, KwValues) THEN Null
    ELSE [null |-> FALSE, identStart |-> identStart, identEnd |-> identEnd,
          hasCols |-> TRUE, colsStart |-> w + 1, colsEnd |-> r,
          lastIndex |-> RunEnd(IsSpace, s, v + 6)]

\* ([^)]+)\)\s+VALUES\s* where the '(' is at offset w and the first ')' at r
MatchColumnList(s, identStart, identEnd, w, r) ==
    IF r < w + 2 \/ ~IsSpace(At(s, r + 1)) THEN Null
    ELSE MatchValuesAfterColumns(s, identStart, identEnd, w, r,
                                 RunEnd(IsSpace, s, r + 1))

\* (?:\(([^)]+)\))?\s+VALUES\s* at offset w, where the \s* after group 1 ends
MatchAfterIdent(s, identStart, identEnd, w) ==
    IF At(s, w) = LPAREN
    THEN MatchColumnList(s, identStart, identEnd, w, IndexOf(s, RPAREN, w + 1))
    ELSE IF w = identEnd \/ ~MatchWord(s, w, KwValues) THEN Null
    ELSE [null |-> FALSE, identStart |-> identStart, identEnd |-> identEnd,
          hasCols |-> FALSE, colsStart |-> 0, colsEnd |-> 0,
          lastIndex |-> RunEnd(IsSpace, s, w + 6)]

\* (?:\.(?:`[^`]+`|\w+))? at offset e1: the offset where group 1 ends
IdentEnd(s, e1) ==
    IF At(s, e1) = DOT /\ MatchIdent(s, e1 + 1) >= 0
    THEN MatchIdent(s, e1 + 1)
    ELSE e1

\* the rest after the first identifier, which ends at e1 (-1: no identifier)
MatchAfterFirstIdent(s, identStart, e1) ==
    IF e1 < 0 THEN Null
    ELSE MatchAfterIdent(s, identStart, IdentEnd(s, e1),
                         RunEnd(IsSpace, s, IdentEnd(s, e1)))

\* INTO\s+ and the rest, at offset p
MatchInto(s, p) ==
    IF ~MatchWord(s, p, KwInto) \/ ~IsSpace(At(s, p + 4)) THEN Null
    ELSE MatchAfterFirstIdent(s, RunEnd(IsSpace, s, p + 4),
                              MatchIdent(s, RunEnd(IsSpace, s, p + 4)))

MatchInsertRegex(s, pos) ==
    IF ~MatchWord(s, pos, KwInsert) \/ ~IsSpace(At(s, pos + 6)) THEN Null
    ELSE MatchInto(s, RunEnd(IsSpace, s, pos + 6))

\* ident.replace(/^`|`$/g, '')
StripBticks(ident) ==
    LET a == IF Len(ident) > 0 /\ ident[1] = BTICK THEN Tail(ident) ELSE ident
    IN  IF Len(a) > 0 /\ a[Len(a)] = BTICK THEN SubSeq(a, 1, Len(a) - 1) ELSE a

\* The table name: the part of group 1 after its last '.', without backticks.
TableOf(rawIdent) ==
    LET dotIdx == LastIndexOf(rawIdent, DOT)
    IN  StripBticks(IF dotIdx # 0 - 1
                    THEN Slice(rawIdent, dotIdx + 1, Len(rawIdent))
                    ELSE rawIdent)

\* s.split(sep) for a one-character separator
RECURSIVE Split(_, _)
Split(s, sep) ==
    LET q == IndexOf(s, sep, 0)
    IN  IF q < 0 THEN <<s>>
        ELSE <<Slice(s, 0, q)>> \o Split(Slice(s, q + 1, Len(s)), sep)

IsColumnNameChar(c) == c \notin {BTICK, 32, 9, 13, 10}
IsNonEmpty(s) == Len(s) > 0

\* m[2].split(',').map(s => s.replace(/[` \t\r\n]+/g, '').replace(/^`|`$/g, '')).filter(Boolean)
ColumnsOf(group2) ==
    LET parts == Split(group2, COMMA)
    IN  SelectSeq([p \in 1..Len(parts) |->
                      StripBticks(SelectSeq(parts[p], IsColumnNameChar))],
                  IsNonEmpty)

\* One iteration of the while loop that looks for the statement end, on the
\* loop state [i, inStr, prev, level, found].
FindEndBody(s, st) ==
    LET ch == s[st.i + 1]
    IN  IF st.inStr
        THEN IF ch = QUOTE /\ st.prev # BSLASH
             THEN IF At(s, st.i + 1) = QUOTE
                  THEN [st EXCEPT !.i = st.i + 2, !.prev = NOCHAR]
                  ELSE [st EXCEPT !.inStr = FALSE, !.prev = ch, !.i = st.i + 1]
             ELSE [st EXCEPT !.prev = ch, !.i = st.i + 1]
        ELSE IF ch = QUOTE
             THEN [st EXCEPT !.inStr = TRUE, !.prev = ch, !.i = st.i + 1]
             ELSE IF ch = LPAREN
             THEN [st EXCEPT !.level = st.level + 1, !.i = st.i + 1]
             ELSE IF ch = RPAREN
             THEN [st EXCEPT !.level = IF st.level - 1 > 0 THEN st.level - 1 ELSE 0,
                             !.i = st.i + 1]
             ELSE IF ch = SEMI /\ st.level = 0
             THEN [st EXCEPT !.found = TRUE]
             ELSE [st EXCEPT !.i = st.i + 1]

FindEndExit(s, st) == st.found \/ ~(st.i < Len(s))

\* The offset of the terminating ';' searched from valuesStart, or -1.
FindStatementEnd(s, valuesStart) ==
    LET st == Loop(FindEndBody, FindEndExit, s,
                   [i |-> valuesStart, inStr |-> FALSE, prev |-> NOCHAR,
                    level |-> 0, found |-> FALSE],
                   Len(s))
    IN  IF st.found THEN st.i ELSE 0 - 1

\* A variant of InsertMatch that takes the end of the text for the
\* terminator of a statement that has none.
InsertMatchToEndOfText(s, pos, m, statementEnd) ==
    [null |-> FALSE,
     start |-> pos,
     table |-> TableOf(Slice(s, m.identStart, m.identEnd)),
     hasColumns |-> m.hasCols,
     columns |-> IF m.hasCols
                 THEN ColumnsOf(Slice(s, m.colsStart, m.colsEnd))
                 ELSE <<>>,
     valuesStart |-> m.lastIndex,
     statementEnd |-> IF statementEnd < 0 THEN Len(s) - 1 ELSE statementEnd]

\* The result of matchInsertAt for the regular expression match m and the
\* offset statementEnd of the terminating ';' (-1: none).
InsertMatch(s, pos, m, statementEnd) ==
    IF statementEnd < 0 THEN Null
    ELSE [null |-> FALSE,
          start |-> pos,
          table |-> TableOf(Slice(s, m.identStart, m.identEnd)),
          hasColumns |-> m.hasCols,
          columns |-> IF m.hasCols
                      THEN ColumnsOf(Slice(s, m.colsStart, m.colsEnd))
                      ELSE <<>>,
          valuesStart |-> m.lastIndex,
          statementEnd |-> statementEnd]

\* matchInsertAt after re.exec: m is its result.
InsertMatchOf(s, pos, m) ==
    IF m.null THEN Null
    ELSE InsertMatch(s, pos, m, FindStatementEnd(s, m.lastIndex))

matchInsertAt(s, pos) == InsertMatchOf(s, pos, MatchInsertRegex(s, pos))

(***************************************************************************)
(* splitValues, sqlEscape, transformSingleTuple, transformValuesList.      *)
(***************************************************************************)
\* s.replace(/\\/g, '\\\\').replace(/'/g, "''")
sqlEscape(s) ==
    ConcatRange([p \in 1..Len(s) |->
                    IF s[p] = BSLASH THEN <<BSLASH, BSLASH>>
                    ELSE IF s[p] = QUOTE THEN <<QUOTE, QUOTE>>
                    ELSE <<s[p]>>],
                1, Len(s))

\* `'${sqlEscape(value)}'`
Quoted(value) == <<QUOTE>> \o sqlEscape(value) \o <<QUOTE>>

\* s.trim()
Trim(s) ==
    LET a == RunEnd(IsSpace, s, 0)
    IN  IF a >= Len(s) THEN <<>>
        ELSE LET e == CHOOSE e \in (a + 1)..Len(s) :
                          /\ ~IsSpace(s[e])
                          /\ \A r \in (e + 1)..Len(s) : IsSpace(s[r])
             IN  Slice(s, a, e)

\* One iteration of the inner while loop of splitValues that decodes a
\* string literal, on the loop state [i, val, closed].
StringBody(src, st) ==
    LET ch == src[st.i + 1]
        next == At(src, st.i + 1)
    IN  IF ch = QUOTE
        THEN IF next = QUOTE
             THEN [st EXCEPT !.val = Append(st.val, QUOTE), !.i = st.i + 2]
             ELSE [st EXCEPT !.i = st.i + 1, !.closed = TRUE]
        ELSE IF ch = BSLASH
        THEN [st EXCEPT !.val = IF next = NOCHAR THEN st.val ELSE Append(st.val, next),
                        !.i = st.i + 2]
        ELSE [st EXCEPT !.val = Append(st.val, ch), !.i = st.i + 1]

StringExit(src, st) == st.closed \/ ~(st.i < Len(src))

IsNotComma(c) == c # COMMA

\* The tail of an iteration of a tokenizing loop: skip spaces, then one comma.
SkipSpacesAndComma(src, p) ==
    LET q == RunEnd(IsSpace, src, p)
    IN  IF At(src, q) = COMMA THEN q + 1 ELSE q

\* One iteration of the outer while loop of splitValues, on the loop state
\* [i, tokens, done]; a token is [isString, value, raw] (value <<>> for null).
\* The quoted branch: lit is the state in which the inner loop ended.
StringToken(src, st, lit) ==
    [i |-> SkipSpacesAndComma(src, lit.i),
     tokens |-> Append(st.tokens,
                       [isString |-> TRUE, value |-> lit.val, raw |-> Quoted(lit.val)]),
     done |-> FALSE]

\* The else branch: an unquoted token from i1 up to the next comma at j.
BareToken(src, st, i1, j) ==
    [i |-> SkipSpacesAndComma(src, j),
     tokens |-> Append(st.tokens,
                       [isString |-> FALSE, value |-> <<>>,
                        raw |-> Trim(Slice(src, i1, j))]),
     done |-> FALSE]

\* The iteration after its leading spaces were skipped up to i1.
SplitAt(src, st, i1) ==
    IF i1 >= Len(src) THEN [st EXCEPT !.i = i1, !.done = TRUE]
    ELSE IF src[i1 + 1] = QUOTE
    THEN StringToken(src, st,
                     Loop(StringBody, StringExit, src,
                          [i |-> i1 + 1, val |-> <<>>, closed |-> FALSE], Len(src)))
    ELSE BareToken(src, st, i1, RunEnd(IsNotComma, src, i1))

SplitBody(src, st) == SplitAt(src, st, RunEnd(IsSpace, src, st.i))

SplitExit(src, st) == st.done \/ ~(st.i < Len(src))

splitValues(src) ==
    Loop(SplitBody, SplitExit, src, [i |-> 0, tokens |-> <<>>, done |-> FALSE],
         Len(src)).tokens

\* colActions[col]: an action is [isString |-> TRUE, value |-> "truncate"]
\* or [isString |-> FALSE, action |-> "update", type |-> ...]; Undefined
\* when the column map has no such key.
Undefined == [undefined |-> TRUE]
ActionOf(colActions, col) ==
    IF col \in DOMAIN colActions THEN colActions[col] ELSE Undefined

\* A variant of NewTokenFor that reads the type of the action: a column of
\* type 'uuid' is left as it is.
NewTokenForByType(tok, col, table, action) ==
    IF action = Undefined \/ action.isString THEN tok
    ELSE IF action.action = "update"
    THEN IF ~tok.isString \/ action.type = "uuid" THEN tok
         ELSE [tok EXCEPT !.value =
                   anonymizeByCharClass(tok.value, table \o <<DOT>> \o col)]
    ELSE tok

\* The callback of tokens.map in transformSingleTuple, for the action of
\* the token's column.
NewTokenFor(tok, col, table, action) ==
    IF action = Undefined \/ action.isString THEN tok
    ELSE IF action.action = "update"
    THEN IF ~tok.isString THEN tok
         ELSE [tok EXCEPT !.value =
                   anonymizeByCharClass(tok.value, table \o <<DOT>> \o col)]
    ELSE tok

NewToken(tok, col, table, colActions) ==
    NewTokenFor(tok, col, table, ActionOf(colActions, col))

\* A variant of Rebuilt that quotes and escapes the value of every token,
\* string or not.
RebuiltAllQuoted(newTokens) ==
    [idx \in 1..Len(newTokens) |-> Quoted(newTokens[idx].value)]

\* newTokens.map(t => t.isString ? `'${sqlEscape(t.value)}'` : t.raw)
Rebuilt(newTokens) ==
    [idx \in 1..Len(newTokens) |->
        IF newTokens[idx].isString THEN Quoted(newTokens[idx].value)
        ELSE newTokens[idx].raw]

\* A variant of TransformTokens without the comparison of tokens.length with
\* colOrder.length: a token beyond the column order has no column, hence no
\* action, and the tuple is rebuilt whatever its number of tokens.
TransformTokensNoArityCheck(tupleSrc, tokens, table, colOrder, colActions) ==
    <<LPAREN>>
        \o Join(Rebuilt([idx \in 1..Len(tokens) |->
                            IF idx <= Len(colOrder)
                            THEN NewToken(tokens[idx], colOrder[idx], table, colActions)
                            ELSE tokens[idx]]),
                <<COMMA, 32>>)
        \o <<RPAREN>>

\* transformSingleTuple after splitValues returned tokens.
TransformTokens(tupleSrc, tokens, table, colOrder, colActions) ==
    IF Len(tokens) # Len(colOrder) THEN tupleSrc
    ELSE <<LPAREN>>
             \o Join(Rebuilt([idx \in 1..Len(tokens) |->
                                 NewToken(tokens[idx], colOrder[idx], table, colActions)]),
                     <<COMMA, 32>>)
             \o <<RPAREN>>

transformSingleTuple(tupleSrc, table, colOrder, colActions) ==
    TransformTokens(tupleSrc, splitValues(Slice(tupleSrc, 1, Len(tupleSrc) - 1)),
                    table, colOrder, colActions)

\* One iteration of the inner while loop of transformValuesList that finds
\* the end of a tuple, on the loop state [i, inStr, prev, level, closed].
TupleEndBody(src, st) ==
    LET ch == src[st.i + 1]
    IN  IF st.inStr
        THEN IF ch = QUOTE /\ st.prev # BSLASH
             THEN IF At(src, st.i + 1) = QUOTE
                  THEN [st EXCEPT !.i = st.i + 2, !.prev = NOCHAR]
                  ELSE [st EXCEPT !.inStr = FALSE, !.prev = ch, !.i = st.i + 1]
             ELSE [st EXCEPT !.prev = ch, !.i = st.i + 1]
        ELSE IF ch = QUOTE
             THEN [st EXCEPT !.inStr = TRUE, !.prev = ch, !.i = st.i + 1]
             ELSE IF ch = LPAREN
             THEN [st EXCEPT !.level = st.level + 1, !.i = st.i + 1]
             ELSE IF ch = RPAREN
             THEN IF st.level - 1 = 0
                  THEN [st EXCEPT !.level = 0, !.i = st.i + 1, !.closed = TRUE]
                  ELSE [st EXCEPT !.level = st.level - 1, !.i = st.i + 1]
             ELSE [st EXCEPT !.i = st.i + 1]

TupleEndExit(src, st) == st.closed \/ ~(st.i < Len(src))

\* One iteration of the outer while loop of transformValuesList, on the
\* loop state [i, tuples, bail, done].
\* A tuple from i1 to e, the offset at which the inner loop ended.
TupleFound(src, st, i1, e) ==
    [st EXCEPT !.i = SkipSpacesAndComma(src, e),
               !.tuples = Append(st.tuples, Slice(src, i1, e))]

\* The iteration after its leading spaces were skipped up to i1.
TuplesAt(src, st, i1) ==
    IF i1 >= Len(src) THEN [st EXCEPT !.i = i1, !.done = TRUE]
    ELSE IF src[i1 + 1] # LPAREN THEN [st EXCEPT !.i = i1, !.bail = TRUE]
    ELSE TupleFound(src, st, i1,
                    Loop(TupleEndBody, TupleEndExit, src,
                         [i |-> i1, inStr |-> FALSE, prev |-> NOCHAR,
                          level |-> 0, closed |-> FALSE], Len(src)).i)

TuplesBody(src, st) == TuplesAt(src, st, RunEnd(IsSpace, src, st.i))

TuplesExit(src, st) == st.bail \/ st.done \/ ~(st.i < Len(src))

\* The tuples found by transformValuesList, and whether it bailed out.
ParseTuples(valuesSrc) ==
    Loop(TuplesBody, TuplesExit, valuesSrc,
         [i |-> 0, tuples |-> <<>>, bail |-> FALSE, done |-> FALSE], Len(valuesSrc))

\* A variant of TransformTuples that transforms and joins the tuples found
\* before the loop bailed out, instead of returning valuesSrc.
TransformTuplesFoundSoFar(valuesSrc, parsed, table, colOrder, colActions) ==
    Join([t \in 1..Len(parsed.tuples) |->
             transformSingleTuple(parsed.tuples[t], table, colOrder, colActions)],
         <<COMMA, 10>>)

\* transformValuesList after its loop: parsed holds the tuples found.
TransformTuples(valuesSrc, parsed, table, colOrder, colActions) ==
    IF parsed.bail THEN valuesSrc
    ELSE Join([t \in 1..Len(parsed.tuples) |->
                  transformSingleTuple(parsed.tuples[t], table, colOrder, colActions)],
              <<COMMA, 10>>)

transformValuesList(valuesSrc, table, colOrder, colActions) ==
    TransformTuples(valuesSrc, ParseTuples(valuesSrc), table, colOrder, colActions)

(***************************************************************************)
(* inferTableColumnsFromDump.                                              *)
(***************************************************************************)
KwCreate == Text("CREATE")
KwTable == Text("TABLE")

\* The offsets of the line feeds of s, and the offset of the n-th of them.
LineFeeds(s) == {q \in 0..(Len(s) - 1) : s[q + 1] = 10}
NthLineFeed(s, n) ==
    CHOOSE q \in LineFeeds(s) : Cardinality({r \in LineFeeds(s) : r < q}) = n - 1

\* dumpText.split(/\r?\n/)
SplitLines(s) ==
    [n \in 1..(Cardinality(LineFeeds(s)) + 1) |->
        LET from == IF n = 1 THEN 0 ELSE NthLineFeed(s, n - 1) + 1
            last == n = Cardinality(LineFeeds(s)) + 1
            to == IF last THEN Len(s) ELSE NthLineFeed(s, n)
        IN  IF ~last /\ to > from /\ s[to] = 13
            THEN Slice(s, from, to - 1)
            ELSE Slice(s, from, to)]

\* A backtick-quoted name `[^`]+` at offset p: the offset after it, or -1.
MatchQuoted(s, p) ==
    IF At(s, p) # BTICK THEN 0 - 1
    ELSE LET q == RunEnd(IsNotBtick, s, p + 1)
         IN  IF q > p + 1 /\ q < Len(s) THEN q + 1 ELSE 0 - 1

\* \s*\( at offset p
OpensParen(s, p) == At(s, RunEnd(IsSpace, s, p)) = LPAREN

\* ^CREATE\s+TABLE\s+ : the offset after it, or -1.
MatchCreateTable(l) ==
    IF ~MatchWord(l, 0, KwCreate) \/ ~IsSpace(At(l, 6)) THEN 0 - 1
    ELSE LET p == RunEnd(IsSpace, l, 6)
         IN  IF ~MatchWord(l, p, KwTable) \/ ~IsSpace(At(l, p + 5)) THEN 0 - 1
             ELSE RunEnd(IsSpace, l, p + 5)

\* /^CREATE\s+TABLE\s+(?:`[^`]+`\.)?`([^`]+)`\s*\(/i : group 1, or Null.
MatchCreateQuoted(l) ==
    LET p == MatchCreateTable(l)
        e1 == IF p < 0 THEN 0 - 1 ELSE MatchQuoted(l, p)
        e2 == IF e1 >= 0 /\ At(l, e1) = DOT THEN MatchQuoted(l, e1 + 1) ELSE 0 - 1
    IN  IF e2 >= 0 /\ OpensParen(l, e2)
        THEN [null |-> FALSE, table |-> Slice(l, e1 + 2, e2 - 1)]
        ELSE IF e1 >= 0 /\ OpensParen(l, e1)
        THEN [null |-> FALSE, table |-> Slice(l, p + 1, e1 - 1)]
        ELSE Null

\* /^CREATE\s+TABLE\s+(?:\w+\.)?(\w+)\s*\(/i : group 1, or Null.
MatchCreateBare(l) ==
    LET p == MatchCreateTable(l)
        e1 == IF p >= 0 /\ IsWord(At(l, p)) THEN RunEnd(IsWord, l, p) ELSE 0 - 1
        e2 == IF e1 >= 0 /\ At(l, e1) = DOT /\ IsWord(At(l, e1 + 1))
              THEN RunEnd(IsWord, l, e1 + 1) ELSE 0 - 1
    IN  IF e2 >= 0 /\ OpensParen(l, e2)
        THEN [null |-> FALSE, table |-> Slice(l, e1 + 1, e2)]
        ELSE IF e1 >= 0 /\ OpensParen(l, e1)
        THEN [null |-> FALSE, table |-> Slice(l, p, e1)]
        ELSE Null

\* line.match(R1) || line.match(R2)
MatchCreate(l) ==
    IF ~MatchCreateQuoted(l).null THEN MatchCreateQuoted(l) ELSE MatchCreateBare(l)

IsAsciiLetter(c) == (c >= 65 /\ c <= 90) \/ (c >= 97 /\ c <= 122)

\* l.match(/^\s*`([^`]+)`\s+[A-Za-z]/) : group 1, or Null.
MatchColumnLine(l) ==
    LET p == RunEnd(IsSpace, l, 0)
        e == MatchQuoted(l, p)
    IN  IF e >= 0 /\ IsSpace(At(l, e)) /\ IsAsciiLetter(At(l, RunEnd(IsSpace, l, e)))
        THEN [null |-> FALSE, column |-> Slice(l, p + 1, e - 1)]
        ELSE Null

\* One iteration of the inner while loop (the lines of one CREATE TABLE
\* block), on the loop state [i, cols, closed].
BlockBody(lines, st) ==
    LET l == lines[st.i + 1]
        cm == MatchColumnLine(l)
    IN  IF At(l, 0) = RPAREN THEN [st EXCEPT !.closed = TRUE]
        ELSE [st EXCEPT !.cols = IF cm.null THEN st.cols ELSE Append(st.cols, cm.column),
                        !.i = st.i + 1]

BlockExit(lines, st) == st.closed \/ ~(st.i < Len(lines))

\* map.set(table, cols)
MapSet(map, key, value) ==
    [x \in DOMAIN map \cup {key} |-> IF x = key THEN value ELSE map[x]]

\* One iteration of the outer while loop, on the loop state [i, map].
InferBody(lines, st) ==
    LET m == MatchCreate(lines[st.i + 1])
    IN  IF m.null THEN [st EXCEPT !.i = st.i + 1]
        ELSE LET b == Loop(BlockBody, BlockExit, lines,
                           [i |-> st.i + 1, cols |-> <<>>, closed |-> FALSE],
                           Len(lines))
             IN  [i |-> b.i + 1, map |-> MapSet(st.map, m.table, b.cols)]

InferExit(lines, st) == ~(st.i < Len(lines))

inferTableColumnsFromDump(dumpText) ==
    LET lines == SplitLines(dumpText)
    IN  Loop(InferBody, InferExit, lines, [i |-> 0, map |-> <<>>], Len(lines)).map

(***************************************************************************)
(* transformDumpLiterals.                                                  *)
(***************************************************************************)
\* The action map config.tables: a table's spec is
\* [isString |-> TRUE, value |-> "truncate"] or
\* [isString |-> FALSE, columns |-> (column name -> action)].
TruncateTablesOf(cfg) ==
    {tb \in DOMAIN cfg : cfg[tb].isString /\ cfg[tb].value = "truncate"}

UpdateSpecOf(cfg) ==
    [tb \in {x \in DOMAIN cfg : ~cfg[x].isString} |-> cfg[tb].columns]

\* A variant of ColOrderOf that prefers the inferred columns of the table to
\* the column list of the statement.
ColOrderOfInferredFirst(m, cols) ==
    IF m.table \in DOMAIN cols THEN [null |-> FALSE, order |-> cols[m.table]]
    ELSE IF m.hasColumns THEN [null |-> FALSE, order |-> m.columns]
    ELSE Null

\* columns ?? tableCols.get(table) ?? null
ColOrderOf(m, cols) ==
    IF m.hasColumns THEN [null |-> FALSE, order |-> m.columns]
    ELSE IF m.table \in DOMAIN cols THEN [null |-> FALSE, order |-> cols[m.table]]
    ELSE Null

\* updateSpec[table] || {}
ColActionsOf(upd, table) == IF table \in DOMAIN upd THEN upd[table] ELSE <<>>

\* The three strings pushed for a rewritten statement: head, values, ';'.
RewriteStatement(s, m, order, colActions) ==
    Slice(s, m.start, m.valuesStart)
        \o transformValuesList(Slice(s, m.valuesStart, m.statementEnd),
                               m.table, order, colActions)
        \o <<SEMI>>

\* The text between the cursor and the start of the match.
Before(s, pos, m) == IF m.start > pos THEN Slice(s, pos, m.start) ELSE <<>>

\* A variant of ScanMatched whose keep branch leaves the cursor on the
\* terminator (i = statementEnd) instead of after it.
ScanMatchedCursorAtTerminator(s, pos, trunc, upd, m, colOrder) ==
    IF m.table \in trunc
    THEN [kind |-> "drop", emit |-> Before(s, pos, m), next |-> m.statementEnd + 1]
    ELSE IF colOrder.null
    THEN [kind |-> "keep",
          emit |-> Before(s, pos, m) \o Slice(s, m.start, m.statementEnd + 1),
          next |-> m.statementEnd]
    ELSE [kind |-> "rewrite",
          emit |-> Before(s, pos, m)
                       \o RewriteStatement(s, m, colOrder.order,
                                           ColActionsOf(upd, m.table)),
          next |-> m.statementEnd + 1]

\* One iteration of the while loop of transformDumpLiterals at cursor pos,
\* where matchInsertAt found the statement m with column order colOrder:
\* what is pushed to out and the next cursor.
ScanMatched(s, pos, trunc, upd, m, colOrder) ==
    IF m.table \in trunc
    THEN [kind |-> "drop", emit |-> Before(s, pos, m), next |-> m.statementEnd + 1]
    ELSE IF colOrder.null
    THEN [kind |-> "keep",
          emit |-> Before(s, pos, m) \o Slice(s, m.start, m.statementEnd + 1),
          next |-> m.statementEnd + 1]
    ELSE [kind |-> "rewrite",
          emit |-> Before(s, pos, m)
                       \o RewriteStatement(s, m, colOrder.order,
                                           ColActionsOf(upd, m.table)),
          next |-> m.statementEnd + 1]

\* A variant of ScanResult whose copy branch pushes the character and leaves
\* the cursor where it is (no i++).
ScanResultNoIncrement(s, pos, trunc, upd, cols, m) ==
    IF m.null
    THEN [kind |-> "copy", emit |-> <<s[pos + 1]>>, next |-> pos]
    ELSE ScanMatched(s, pos, trunc, upd, m, ColOrderOf(m, cols))

\* One iteration of the loop, where m is the result of matchInsertAt.
ScanResult(s, pos, trunc, upd, cols, m) ==
    IF m.null
    THEN [kind |-> "copy", emit |-> <<s[pos + 1]>>, next |-> pos + 1]
    ELSE ScanMatched(s, pos, trunc, upd, m, ColOrderOf(m, cols))

ScanStep(s, pos, trunc, upd, cols) ==
    ScanResult(s, pos, trunc, upd, cols, matchInsertAt(s, pos))

ScanBody(c, st) ==
    LET r == ScanStep(c.text, st.i, c.trunc, c.upd, c.cols)
    IN  [i |-> r.next, out |-> st.out \o r.emit]

ScanExit(c, st) == ~(st.i < Len(c.text))

\* The function as a whole: out.join('') after the loop.
transformDumpLiterals(dumpText, cfg) ==
    Loop(ScanBody, ScanExit,
         [text |-> dumpText, trunc |-> TruncateTablesOf(cfg),
          upd |-> UpdateSpecOf(cfg), cols |-> inferTableColumnsFromDump(dumpText)],
         [i |-> 0, out |-> <<>>], Len(dumpText)).out

(***************************************************************************)
(* Inputs.                                                                 *)
(***************************************************************************)
MaxStmts == 2
MaxCalls == 2

Bt(name) == <<BTICK>> \o Text(name) \o <<BTICK>>

Truncate == [isString |-> TRUE, value |-> "truncate"]
Update(type) == [isString |-> FALSE, action |-> "update", type |-> type]
Columns(colActions) == [isString |-> FALSE, columns |-> colActions]

TableT == Text("t")
TableU == Text("u")
ColA == Text("a")
ColB == Text("b")

\* t is truncated; column b of u is updated, its column a has no entry.
ConfigTruncT == (TableT :> Truncate) @@ (TableU :> Columns(ColB :> Update("email")))
\* column b of t is updated; in u, a is truncated and b is updated.
ConfigUpdateBoth ==
    (TableT :> Columns(ColB :> Update("text")))
        @@ (TableU :> Columns((ColA :> Truncate) @@ (ColB :> Update("phone"))))
\* u is truncated; t has no entry.
ConfigTruncU == (TableU :> Truncate)

Configs == {ConfigTruncT, ConfigUpdateBoth, ConfigTruncU}

\* INSERT INTO `u` (`a`,`b`) VALUES (1,'a@b.c');
StmtExplicit ==
    Text("INSERT INTO ") \o Bt("u") \o Text(" (") \o Bt("a") \o Text(",") \o Bt("b")
        \o Text(") VALUES (1,'a@b.c');\n")
\* INSERT INTO t VALUES (1,'x\\');   a literal that ends with an escaped backslash
StmtBackslash == Text("INSERT INTO t VALUES (1,'x\\\\');\n")
\* two tuples, a doubled quote and a semicolon inside a literal
StmtTwoTuples == Text("INSERT INTO t VALUES (7,'O''B'),(8,'c;d');\n")
\* no terminating ';'
StmtUnterminated == Text("INSERT INTO u VALUES (2\n")
\* CREATE TABLE `t` ( `a` int, `b` text );
CreateT ==
    Text("CREATE TABLE ") \o Bt("t") \o Text(" (\n") \o Bt("a") \o Text(" int,\n")
        \o Bt("b") \o Text(" text\n);\n")
\* schema-qualified, lower case, two values for one listed column
StmtArity == Text("insert into s.u (a) values (3,'z');\n")
Comment == Text("-- c\n")
\* a table without entry in any config, one listed column, two tuples
StmtUnrelated == Text("INSERT INTO v (a) VALUES (7),(8);\n")
\* a closing parenthesis inside one literal and a semicolon inside the next
StmtParenInLiteral == Text("INSERT INTO v (a) VALUES (':)'),('c;d');\n")

\* an explicit column list in another order than the CREATE TABLE block of t
StmtListReversed == Text("INSERT INTO t (b,a) VALUES ('p','q');\n")
\* CREATE TABLE x (`a` int);   a block that opens and closes on one line
CreateOneLine == Text("CREATE TABLE x (") \o Bt("a") \o Text(" int);\n")
\* the text of a statement inside a comment
CommentInsert == Text("-- INSERT INTO t VALUES (0);\n")
\* a clause after the tuples
StmtOnDuplicate ==
    Text("INSERT INTO u (a,b) VALUES (1,'q') ON DUPLICATE KEY UPDATE a=1;\n")

Pieces == <<StmtExplicit, StmtBackslash, StmtTwoTuples, StmtUnterminated,
            CreateT, StmtArity, Comment, StmtUnrelated, StmtParenInLiteral,
            StmtListReversed, CreateOneLine, CommentInsert, StmtOnDuplicate>>

\* The dumps: up to MaxStmts pieces, one after the other.
PieceLists == UNION {[1..n -> 1..Len(Pieces)] : n \in 1..MaxStmts}
DumpOf(ps) == ConcatRange([p \in 1..Len(ps) |-> Pieces[ps[p]]], 1, Len(ps))
Dumps == {DumpOf(ps) : ps \in PieceLists}

\* 233 is the code unit of a non-ASCII letter
CoreInputs == {Text("a@b.c"), Text("Jon Doe"), Text("O'B"), Text("x\\"),
               Text("A1-b2"), Text("0907"), Text(""), <<67, 233, 99>>}
CoreKeys == {Text("u.b"), Text("t.b"), Text("users.email")}

(***************************************************************************)
(* The dump rewrite as a state machine: one step per loop iteration.       *)
(***************************************************************************)
Init ==
    /\ text \in Dumps
    /\ tables \in Configs
    /\ truncateTables = {}
    /\ updateSpec = <<>>
    /\ tableCols = <<>>
    /\ i = 0
    /\ out = <<>>
    /\ pc = "start"
    /\ input = <<>> /\ seedKey = <<>> /\ rng = <<0, 0>> /\ anon = <<>> /\ k = 0
    /\ calls = 0 /\ history = <<>>
    /\ tupleIn = <<>> /\ tokenList = <<>> /\ cursor = 0 /\ tupleOut = <<>>
    /\ CliIdle

\* The prologue: the truncate set, the update specs and the inferred columns.
Start ==
    /\ pc = "start"
    /\ truncateTables' = TruncateTablesOf(tables)
    /\ updateSpec' = UpdateSpecOf(tables)
    /\ tableCols' = inferTableColumnsFromDump(text)
    /\ i' = 0
    /\ out' = <<>>
    /\ pc' = "scan"
    /\ UNCHANGED <<text, tables>>
    /\ UNCHANGED coreVars
    /\ UNCHANGED tupleVars
    /\ UNCHANGED cliVars

\* The loop iteration at the cursor.
Scanned == ScanStep(text, i, truncateTables, updateSpec, tableCols)

\* out.push(...) and the assignment to i of the iteration.
Advance ==
    /\ out' = out \o Scanned.emit
    /\ i' = Scanned.next
    /\ UNCHANGED <<text, tables, truncateTables, updateSpec, tableCols, pc>>
    /\ UNCHANGED coreVars
    /\ UNCHANGED tupleVars
    /\ UNCHANGED cliVars

\* No statement matches at the cursor: one character is copied.
CopyChar ==
    /\ pc = "scan"
    /\ i < Len(text)
    /\ Scanned.kind = "copy"
    /\ Advance

\* The statement at the cursor inserts into a truncated table: skipped.
DropTruncated ==
    /\ pc = "scan"
    /\ i < Len(text)
    /\ Scanned.kind = "drop"
    /\ Advance

\* The column order is unknown: the statement is kept as is.
KeepUnresolved ==
    /\ pc = "scan"
    /\ i < Len(text)
    /\ Scanned.kind = "keep"
    /\ Advance

\* The VALUES list is transformed and the statement rebuilt.
RewriteInsert ==
    /\ pc = "scan"
    /\ i < Len(text)
    /\ Scanned.kind = "rewrite"
    /\ Advance

Return ==
    /\ pc = "scan"
    /\ ~(i < Len(text))
    /\ pc' = "done"
    /\ UNCHANGED <<text, tables, truncateTables, updateSpec, tableCols, i, out>>
    /\ UNCHANGED coreVars
    /\ UNCHANGED tupleVars
    /\ UNCHANGED cliVars

Next ==
    \/ Start
    \/ CopyChar
    \/ DropTruncated
    \/ KeepUnresolved
    \/ RewriteInsert
    \/ Return

Spec == Init /\ [][Next]_vars

(***************************************************************************)
(* anonymizeByCharClass as a state machine: one step per character, and    *)
(* up to MaxCalls calls one after the other, as transformSingleTuple makes *)
(* them for the tokens of the tuples of a dump.                            *)
(***************************************************************************)
InitCore ==
    /\ pc = "idle"
    /\ input = <<>> /\ seedKey = <<>> /\ rng = <<0, 0>> /\ anon = <<>> /\ k = 0
    /\ calls = 0
    /\ history = <<>>
    /\ text = <<>> /\ tables = <<>> /\ truncateTables = {} /\ updateSpec = <<>>
    /\ tableCols = <<>> /\ i = 0 /\ out = <<>>
    /\ tupleIn = <<>> /\ tokenList = <<>> /\ cursor = 0 /\ tupleOut = <<>>
    /\ CliIdle

\* A variant of AnonCall in which one generator serves every call instead of
\* a generator created and seeded by each call.
AnonCallSharedGenerator ==
    /\ pc \in {"idle", "anonDone"}
    /\ calls < MaxCalls
    /\ \E s \in CoreInputs, key \in CoreKeys :
           /\ input' = s
           /\ seedKey' = key
    /\ rng' = rng
    /\ anon' = <<>>
    /\ k' = 0
    /\ pc' = "anon"
    /\ calls' = calls + 1
    /\ UNCHANGED history
    /\ UNCHANGED scanVars
    /\ UNCHANGED tupleVars
    /\ UNCHANGED cliVars

\* The call: const rng = mulberry32(hashString32(...)); let out = ''
AnonCall ==
    /\ pc \in {"idle", "anonDone"}
    /\ calls < MaxCalls
    /\ \E s \in CoreInputs, key \in CoreKeys :
           /\ input' = s
           /\ seedKey' = key
           /\ rng' = Seed(s, key)
    /\ anon' = <<>>
    /\ k' = 0
    /\ pc' = "anon"
    /\ calls' = calls + 1
    /\ UNCHANGED history
    /\ UNCHANGED scanVars
    /\ UNCHANGED tupleVars
    /\ UNCHANGED cliVars

\* The loop state [out, a, i] of anonymizeByCharClass after one iteration.
AnonNext == AnonBody(input, [out |-> anon, a |-> rng, i |-> k])

\* One iteration of the for loop.
AnonAdvance ==
    /\ anon' = AnonNext.out
    /\ rng' = AnonNext.a
    /\ k' = AnonNext.i
    /\ UNCHANGED <<input, seedKey, pc, calls, history>>
    /\ UNCHANGED scanVars
    /\ UNCHANGED tupleVars
    /\ UNCHANGED cliVars

AnonDigit ==
    /\ pc = "anon"
    /\ k < Len(input)
    /\ IsDigit(input[k + 1])
    /\ AnonAdvance

AnonUpper ==
    /\ pc = "anon"
    /\ k < Len(input)
    /\ IsUpper(input[k + 1])
    /\ AnonAdvance

AnonLower ==
    /\ pc = "anon"
    /\ k < Len(input)
    /\ IsLower(input[k + 1])
    /\ AnonAdvance

AnonOther ==
    /\ pc = "anon"
    /\ k < Len(input)
    /\ ~IsDigit(input[k + 1]) /\ ~IsUpper(input[k + 1]) /\ ~IsLower(input[k + 1])
    /\ AnonAdvance

\* return out
AnonReturn ==
    /\ pc = "anon"
    /\ ~(k < Len(input))
    /\ pc' = "anonDone"
    /\ history' = history @@ (<<input, seedKey>> :> anon)
    /\ UNCHANGED <<input, seedKey, rng, anon, k, calls>>
    /\ UNCHANGED scanVars
    /\ UNCHANGED tupleVars
    /\ UNCHANGED cliVars

NextCore ==
    \/ AnonCall
    \/ AnonDigit
    \/ AnonUpper
    \/ AnonLower
    \/ AnonOther
    \/ AnonReturn

SpecCore == InitCore /\ [][NextCore]_vars

(***************************************************************************)
(* transformSingleTuple as a state machine: one step per token that        *)
(* splitValues pushes, then the comparison with the column order and the   *)
(* tuple that is returned.                                                 *)
(***************************************************************************)
MaxValues == 2

\* The value texts the tuples are made of: numbers, NULL, a value within
\* spaces, literals with backslash escapes (backslash-n, an escaped
\* backslash before the closing quote, backslash-quote, backslash-0 and
\* backslash-t), a doubled quote, a comma and a parenthesis inside a
\* literal, and function calls with arguments.
ValueTexts ==
    <<Text("1"), Text("NULL"), Text(" 2 "), Text("'n'"), Text("'a\\nb'"),
      Text("'x\\\\'"), Text("'O''B'"), Text("'\\''"), Text("'\\0\\t'"),
      Text("'a,b'"), Text("'A1-b2)'"), Text("CONCAT('a','b')"), Text("f(1,2)")>>

ValueLists == UNION {[1..n -> 1..Len(ValueTexts)] : n \in 1..MaxValues}
TupleOf(vs) ==
    <<LPAREN>> \o Join([v \in 1..Len(vs) |-> ValueTexts[vs[v]]], <<COMMA>>) \o <<RPAREN>>
TupleSources == {TupleOf(vs) : vs \in ValueLists}

\* The table and the column order of the statement the tuple is in.
TupleTable == IF TableU \in TruncateTablesOf(tables) THEN TableT ELSE TableU
TupleOrder == <<ColA, ColB>>
TupleActions == ColActionsOf(updateSpec, TupleTable)

InitTuple ==
    /\ pc = "split"
    /\ tupleIn \in TupleSources
    /\ tables \in Configs
    /\ truncateTables = TruncateTablesOf(tables)
    /\ updateSpec = UpdateSpecOf(tables)
    /\ tokenList = <<>>
    /\ cursor = 0
    /\ tupleOut = <<>>
    /\ text = <<>> /\ tableCols = <<>> /\ i = 0 /\ out = <<>>
    /\ input = <<>> /\ seedKey = <<>> /\ rng = <<0, 0>> /\ anon = <<>> /\ k = 0
    /\ calls = 0 /\ history = <<>>
    /\ CliIdle

\* const inner = tupleSrc.slice(1, -1)
Inner == Slice(tupleIn, 1, Len(tupleIn) - 1)

\* The offset of the next token: the cursor after the spaces.
TokenStart == RunEnd(IsSpace, Inner, cursor)

\* The loop state of splitValues after the iteration at the cursor.
SplitNext == SplitBody(Inner, [i |-> cursor, tokens |-> tokenList, done |-> FALSE])

SplitAdvance ==
    /\ tokenList' = SplitNext.tokens
    /\ cursor' = SplitNext.i
    /\ UNCHANGED <<tupleIn, tupleOut, pc>>
    /\ UNCHANGED scanVars
    /\ UNCHANGED coreVars
    /\ UNCHANGED cliVars

\* The token at the cursor starts with a quote: a string literal is decoded.
SplitQuoted ==
    /\ pc = "split"
    /\ cursor < Len(Inner)
    /\ TokenStart < Len(Inner)
    /\ Inner[TokenStart + 1] = QUOTE
    /\ SplitAdvance

\* Any other token runs up to the next comma.
SplitBare ==
    /\ pc = "split"
    /\ cursor < Len(Inner)
    /\ TokenStart < Len(Inner)
    /\ Inner[TokenStart + 1] # QUOTE
    /\ SplitAdvance

\* return tokens
SplitReturn ==
    /\ pc = "split"
    /\ ~(cursor < Len(Inner) /\ TokenStart < Len(Inner))
    /\ pc' = "tokens"
    /\ UNCHANGED tupleVars
    /\ UNCHANGED scanVars
    /\ UNCHANGED coreVars
    /\ UNCHANGED cliVars

\* Column count mismatch: return tupleSrc
TupleKeep ==
    /\ pc = "tokens"
    /\ Len(tokenList) # Len(TupleOrder)
    /\ tupleOut' = tupleIn
    /\ pc' = "tupleDone"
    /\ UNCHANGED <<tupleIn, tokenList, cursor>>
    /\ UNCHANGED scanVars
    /\ UNCHANGED coreVars
    /\ UNCHANGED cliVars

\* The tokens are mapped and the tuple is rebuilt.
TupleRebuild ==
    /\ pc = "tokens"
    /\ Len(tokenList) = Len(TupleOrder)
    /\ tupleOut' = TransformTokens(tupleIn, tokenList, TupleTable, TupleOrder, TupleActions)
    /\ pc' = "tupleDone"
    /\ UNCHANGED <<tupleIn, tokenList, cursor>>
    /\ UNCHANGED scanVars
    /\ UNCHANGED coreVars
    /\ UNCHANGED cliVars

NextTuple ==
    \/ SplitQuoted
    \/ SplitBare
    \/ SplitReturn
    \/ TupleKeep
    \/ TupleRebuild

SpecTuple == InitTuple /\ [][NextTuple]_vars

(***************************************************************************)
(* getTypeAwareExpression, randomizeByCharClass and buildDumpSql.  An SQL  *)
(* expression is kept as the function it is of the column's value: the     *)
(* record [fn, column, table] names it and EvalExpr evaluates it as MySQL  *)
(* does.  NULL is SqlNull.                                                 *)
(***************************************************************************)
SqlNull == <<0 - 1>>

Digits == Text("0123456789")
Lowers == Text("abcdefghijklmnopqrstuvwxyz")
Uppers == Text("ABCDEFGHIJKLMNOPQRSTUVWXYZ")

\* REPLACE(s, from, to), for a from that does not overlap with itself (one
\* character, or a marker CHAR(open) c CHAR(close)): the match is case
\* sensitive and every occurrence is replaced.
SqlReplace(s, from, to) ==
    ConcatRange([p \in 1..Len(s) |->
                    IF /\ p + Len(from) - 1 <= Len(s)
                       /\ SubSeq(s, p, p + Len(from) - 1) = from
                    THEN to
                    ELSE IF \E q \in 1..(Len(from) - 1) :
                                /\ p - q >= 1
                                /\ p - q + Len(from) - 1 <= Len(s)
                                /\ SubSeq(s, p - q, p - q + Len(from) - 1) = from
                         THEN <<>>
                         ELSE <<s[p]>>],
                1, Len(s))

\* CONV(SUBSTRING(SHA2(s, 256), 1, 2), 16, 10): the first byte of the digest
\* of s, a number in 0..255 that s determines.  The digest itself is not
\* computed; hashString32 stands for it.
Sha2Byte(s) == hashString32(s)[2] % 256

\* '::table.column::'
SqlSeed(table, column) ==
    Text("::") \o table \o <<DOT>> \o column \o Text("::")

\* The loops that wrap the expression in REPLACE calls, on the loop state
\* [idx, expr]; c is [chars, open, close] and, for the second pass,
\* [chars, open, close, base, seed, tag, first, count].
\* expr = REPLACE(expr, 'ch', CONCAT(open, 'ch', close))
MarkBody(c, st) ==
    [idx |-> st.idx + 1,
     expr |-> SqlReplace(st.expr, <<c.chars[st.idx]>>,
                         <<c.open, c.chars[st.idx], c.close>>)]

\* expr = REPLACE(expr, marker, mapped)
MapBody(c, st) ==
    [idx |-> st.idx + 1,
     expr |-> SqlReplace(st.expr, <<c.open, c.chars[st.idx], c.close>>,
                         <<c.first + (Sha2Byte(c.base \o c.seed
                                                   \o <<c.tag, c.chars[st.idx]>>)
                                          % c.count)>>)]

EachExit(c, st) == st.idx > Len(c.chars)

Marked(expr, chars, open, close) ==
    Loop(MarkBody, EachExit, [chars |-> chars, open |-> open, close |-> close],
         [idx |-> 1, expr |-> expr], Len(chars)).expr

Mapped(expr, chars, open, close, base, seed, tag) ==
    Loop(MapBody, EachExit,
         [chars |-> chars, open |-> open, close |-> close, base |-> base,
          seed |-> seed, tag |-> tag, first |-> chars[1], count |-> Len(chars)],
         [idx |-> 1, expr |-> expr], Len(chars)).expr

\* The value of the expression randomizeByCharClass returns, for a column
\* of value v: the three marking passes, the three mapping passes, LEFT.
MarkedAll(base) ==
    Marked(Marked(Marked(base, Digits, 1, 2), Lowers, 3, 4), Uppers, 5, 6)

MappedAll(expr, base, seed) ==
    Mapped(Mapped(Mapped(expr, Digits, 1, 2, base, seed, Ord("D")),
                  Lowers, 3, 4, base, seed, Ord("L")),
           Uppers, 5, 6, base, seed, Ord("U"))

\* LEFT(s, n)
SqlLeft(s, n) == IF n < Len(s) THEN SubSeq(s, 1, n) ELSE s

\* IF(`column` IS NULL, NULL, LEFT(expr, CHAR_LENGTH(`column`)))
EvalByCharClass(v, table, column) ==
    IF v = SqlNull THEN SqlNull
    ELSE SqlLeft(MappedAll(MarkedAll(v), v, SqlSeed(table, column)), Len(v))

randomizeByCharClass(column, table) ==
    [fn |-> "randomizeByCharClass", column |-> column, table |-> table]

getTypeAwareExpression(column, table, type) ==
    IF type = "uuid" THEN [fn |-> "UUID", column |-> column, table |-> table]
    ELSE randomizeByCharClass(column, table)

\* The value the expression gives a column of value v; uuid is what UUID()
\* returns when it is evaluated.
EvalExpr(expr, v, uuid) ==
    IF expr.fn = "UUID" THEN (IF v = SqlNull THEN SqlNull ELSE uuid)
    ELSE EvalByCharClass(v, expr.table, expr.column)

\* Object.entries(obj), as the sequence of the keys: the entries come in the
\* order of their names.
Entries(obj) ==
    CHOOSE e \in [1..Cardinality(DOMAIN obj) -> DOMAIN obj] :
        \A x, y \in 1..Cardinality(DOMAIN obj) : x < y => e[x][1] < e[y][1]

\* The SET clauses built for a table whose spec is a column map: one per
\* column whose action is an object with action 'update'.
IsUpdateAction(action) == ~action.isString /\ action.action = "update"

SetClauseOf(table, colActions, col) ==
    IF IsUpdateAction(colActions[col])
    THEN <<[column |-> col,
            expr |-> getTypeAwareExpression(col, table, colActions[col].type)]>>
    ELSE <<>>

SetClauses(table, colActions) ==
    ConcatRange([c \in 1..Len(Entries(colActions)) |->
                    SetClauseOf(table, colActions, Entries(colActions)[c])],
                1, Len(Entries(colActions)))

\* The statements buildDumpSql writes for one table (the comment lines are
\* left out): the conditional TRUNCATE of a table marked 'truncate', the
\* UPDATE of a table with SET clauses.
ScriptOf(table, tableSpec) ==
    IF tableSpec.isString
    THEN IF tableSpec.value = "truncate"
         THEN <<[sql |-> "TRUNCATE TABLE if exists", table |-> table]>>
         ELSE <<>>
    ELSE IF Len(SetClauses(table, tableSpec.columns)) > 0
         THEN <<[sql |-> "UPDATE", table |-> table,
                 set |-> SetClauses(table, tableSpec.columns)]>>
         ELSE <<>>

buildDumpSql(cfg) ==
    ConcatRange([t \in 1..Len(Entries(cfg.tables)) |->
                    ScriptOf(Entries(cfg.tables)[t], cfg.tables[Entries(cfg.tables)[t]])],
                1, Len(Entries(cfg.tables)))

(***************************************************************************)
(* The run command: the confirmation prompt, the config file, and          *)
(* runAnonymisation with runDirectMysql, as a state machine.               *)
(***************************************************************************)
MaxRows == 1

\* A field that the config file does not set.
Absent == "absent"

\* The database section of a config file, and a config file without one.
Database(type, mode, url, dumpFile) ==
    [absent |-> FALSE, type |-> type, mode |-> mode, url |-> url, dumpFile |-> dumpFile]
NoDatabase ==
    [absent |-> TRUE, type |-> Absent, mode |-> Absent, url |-> Absent,
     dumpFile |-> Absent]

\* rawConfig.database = rawConfig.database || {}; rawConfig.database.mode = 'direct'
MergeOptions(raw, opts) ==
    IF opts.direct
    THEN [raw EXCEPT !.database = [@ EXCEPT !.absent = FALSE, !.mode = "direct"]]
    ELSE raw

\* ConfigSchema.parse: whether it succeeds, and the value it returns, with
\* the defaults of DatabaseSchema.
ParseSucceeds(raw) ==
    /\ ~raw.database.absent
    /\ raw.database.type \in {"mysql", "postgres", Absent}
    /\ raw.database.mode \in {"dump", "direct", Absent}

Parse(raw) ==
    [raw EXCEPT !.database.type = IF @ = Absent THEN "mysql" ELSE @,
                !.database.mode = IF @ = Absent THEN "dump" ELSE @]

\* validateSemanticConfig: whether it returns without throwing.
ValidAction(action) ==
    IF action.isString THEN action.value = "truncate" ELSE action.action = "update"

ValidTable(tableSpec) ==
    IF tableSpec.isString THEN tableSpec.value = "truncate"
    ELSE \A col \in DOMAIN tableSpec.columns : ValidAction(tableSpec.columns[col])

validateSemanticConfig(cfg) ==
    /\ IF cfg.database.mode = "direct" THEN cfg.database.url # Absent
       ELSE cfg.database.url # Absent \/ cfg.database.dumpFile # Absent
    /\ \A tb \in DOMAIN cfg.tables : ValidTable(cfg.tables[tb])

\* The config file is there, parses and is valid.
ConfigLoads ==
    /\ ~rawConfig.missing
    /\ ParseSucceeds(MergeOptions(rawConfig, options))
    /\ validateSemanticConfig(Parse(MergeOptions(rawConfig, options)))

\* gzip(Buffer.from(s, 'utf8')) and its inverse.
Gzip(s) == [gzip |-> s]
Gunzip(z) == z.gzip

\* filePath.toLowerCase().endsWith('.gz')
IsGz(filePath) ==
    /\ Len(filePath) >= 3
    /\ SubSeq(filePath, Len(filePath) - 2, Len(filePath)) \in {".gz", ".GZ", ".Gz", ".gZ"}

\* readInputDump: a file whose name ends with .gz is unzipped.  files is
\* the content of the files, by name.
readInputDump(files, filePath) ==
    IF IsGz(filePath) THEN Gunzip(files[filePath]) ELSE files[filePath]

(* Inputs. *)
Url == "mysql://localhost/db"
Files ==
    ("dump.sql" :> StmtExplicit \o StmtTwoTuples) @@ ("dump.sql.GZ" :> Gzip(StmtExplicit))
DatabaseSections ==
    {Database("mysql", "direct", Url, Absent),
     Database(Absent, Absent, Url, Absent),
     Database("mysql", "dump", Absent, "dump.sql"),
     Database(Absent, "dump", Url, "dump.sql.GZ"),
     Database("postgres", Absent, Url, Absent),
     Database("mysql", "directly", Url, Absent),
     NoDatabase}

\* column a of t is updated with the type uuid
ConfigUuid == (TableT :> Columns(ColA :> Update("uuid")))
\* column a of u is truncated, no column is updated
ConfigColumnTruncate == (TableU :> Columns(ColA :> Truncate))
\* a table spec that is a string other than 'truncate'
ConfigBadTable == (TableT :> [isString |-> TRUE, value |-> "drop"])

ConfigFiles ==
    {[missing |-> FALSE, database |-> db, tables |-> tabs] :
        db \in DatabaseSections,
        tabs \in Configs \cup {ConfigUuid, ConfigColumnTruncate, ConfigBadTable}}
        \cup {[missing |-> TRUE, database |-> NoDatabase, tables |-> <<>>]}

\* The databases: t and u with MaxRows rows of columns a and b, and t alone.
Row(a, b) == (ColA :> a) @@ (ColB :> b)
RowsT == [r \in 1..MaxRows |-> Row(Text("7"), Text("Ab1-9a"))]
RowsU == [r \in 1..MaxRows |-> Row(Text("x@y.z"), SqlNull)]
Databases == {(TableT :> RowsT) @@ (TableU :> RowsU), (TableT :> RowsU)}

\* What UUID() may return.
Uuids == {Text("6ccd780c-baba-1026-9564-5b8c656024db"),
          Text("6ccd780c-baba-1026-9564-5b8c656024dc")}

InitCli ==
    /\ pc = "cli"
    /\ options \in {[direct |-> FALSE], [direct |-> TRUE]}
    /\ rawConfig \in ConfigFiles
    /\ database \in Databases
    /\ proceed = "unasked"
    /\ config = <<>>
    /\ conn = "none"
    /\ sent = <<>>
    /\ written = <<>>
    /\ exitCode = 0
    /\ tableIdx = 0
    /\ text = <<>> /\ tables = <<>> /\ truncateTables = {} /\ updateSpec = <<>>
    /\ tableCols = <<>> /\ i = 0 /\ out = <<>>
    /\ input = <<>> /\ seedKey = <<>> /\ rng = <<0, 0>> /\ anon = <<>> /\ k = 0
    /\ calls = 0 /\ history = <<>>
    /\ tupleIn = <<>> /\ tokenList = <<>> /\ cursor = 0 /\ tupleOut = <<>>

\* What no step of the command changes.
CliFrame ==
    /\ UNCHANGED <<options, rawConfig>>
    /\ UNCHANGED scanVars
    /\ UNCHANGED coreVars
    /\ UNCHANGED tupleVars

\* --direct: the prompt is answered yes.
PromptYes ==
    /\ pc = "cli"
    /\ options.direct
    /\ proceed' = "yes"
    /\ pc' = "load"
    /\ UNCHANGED <<config, conn, sent, database, written, exitCode, tableIdx>>
    /\ CliFrame

\* --direct: the prompt is answered no: 'Aborted by user.'
PromptNo ==
    /\ pc = "cli"
    /\ options.direct
    /\ proceed' = "no"
    /\ pc' = "aborted"
    /\ UNCHANGED <<config, conn, sent, database, written, exitCode, tableIdx>>
    /\ CliFrame

\* Without --direct there is no prompt.
NoPrompt ==
    /\ pc = "cli"
    /\ ~options.direct
    /\ pc' = "load"
    /\ UNCHANGED <<proceed, config, conn, sent, database, written, exitCode, tableIdx>>
    /\ CliFrame

\* The config file is loaded, merged with the options, parsed and validated.
LoadConfig ==
    /\ pc = "load"
    /\ ConfigLoads
    /\ config' = Parse(MergeOptions(rawConfig, options))
    /\ pc' = "run"
    /\ UNCHANGED <<proceed, conn, sent, database, written, exitCode, tableIdx>>
    /\ CliFrame

\* assertFileExists, loadConfig, ConfigSchema.parse or validateSemanticConfig
\* throws: the catch block sets the exit code.
LoadFails ==
    /\ pc = "load"
    /\ ~ConfigLoads
    /\ exitCode' = 1
    /\ pc' = "failed"
    /\ UNCHANGED <<proceed, config, conn, sent, database, written, tableIdx>>
    /\ CliFrame

\* runAnonymisation, direct mode, a database type other than mysql.
NotImplemented ==
    /\ pc = "run"
    /\ config.database.mode = "direct"
    /\ config.database.type # "mysql"
    /\ pc' = "completed"
    /\ UNCHANGED <<proceed, config, conn, sent, database, written, exitCode, tableIdx>>
    /\ CliFrame

\* runAnonymisation, direct mode: runDirectMysql opens the connection.
Connect ==
    /\ pc = "run"
    /\ config.database.mode = "direct"
    /\ config.database.type = "mysql"
    /\ conn' = "open"
    /\ tableIdx' = 1
    /\ pc' = "direct"
    /\ UNCHANGED <<proceed, config, sent, database, written, exitCode>>
    /\ CliFrame

\* The table of the iteration of runDirectMysql, and its spec.
TableName == Entries(config.tables)[tableIdx]
TableSpec == config.tables[TableName]
InTables == pc = "direct" /\ tableIdx <= Len(Entries(config.tables))

\* The rows of a table after UPDATE ... SET with the given clauses.
Updated(rows, set, uuid) ==
    [r \in 1..Len(rows) |->
        [col \in DOMAIN rows[r] |->
            IF \E c \in 1..Len(set) : set[c].column = col
            THEN EvalExpr(set[CHOOSE c \in 1..Len(set) : set[c].column = col].expr,
                          rows[r][col], uuid)
            ELSE rows[r][col]]]

\* A table marked 'truncate': mysqlTruncateIfExists asks whether the table
\* exists and truncates it if it does.
DirectTruncate ==
    /\ InTables
    /\ TableSpec.isString
    /\ IF TableName \in DOMAIN database
       THEN /\ sent' = sent \o <<[sql |-> "SELECT COUNT(*)", table |-> TableName],
                                 [sql |-> "TRUNCATE TABLE", table |-> TableName]>>
            /\ database' = [database EXCEPT ![TableName] = <<>>]
       ELSE /\ sent' = Append(sent, [sql |-> "SELECT COUNT(*)", table |-> TableName])
            /\ database' = database
    /\ tableIdx' = tableIdx + 1
    /\ UNCHANGED <<proceed, config, conn, written, exitCode, pc>>
    /\ CliFrame

\* A table with SET clauses: one UPDATE of all its rows.
DirectUpdate ==
    /\ InTables
    /\ ~TableSpec.isString
    /\ Len(SetClauses(TableName, TableSpec.columns)) > 0
    /\ TableName \in DOMAIN database
    /\ sent' = Append(sent, [sql |-> "UPDATE", table |-> TableName,
                             set |-> SetClauses(TableName, TableSpec.columns)])
    /\ \E uuid \in Uuids :
           database' = [database EXCEPT ![TableName] =
                            Updated(@, SetClauses(TableName, TableSpec.columns), uuid)]
    /\ tableIdx' = tableIdx + 1
    /\ UNCHANGED <<proceed, config, conn, written, exitCode, pc>>
    /\ CliFrame

\* The UPDATE names a table the database does not have: conn.query rejects,
\* the connection is ended and the catch block sets the exit code.
DirectUpdateFails ==
    /\ InTables
    /\ ~TableSpec.isString
    /\ Len(SetClauses(TableName, TableSpec.columns)) > 0
    /\ TableName \notin DOMAIN database
    /\ sent' = Append(sent, [sql |-> "UPDATE", table |-> TableName,
                             set |-> SetClauses(TableName, TableSpec.columns)])
    /\ conn' = "ended"
    /\ exitCode' = 1
    /\ pc' = "failed"
    /\ UNCHANGED <<proceed, config, database, written, tableIdx>>
    /\ CliFrame

\* A table without SET clauses: nothing is sent.
DirectSkip ==
    /\ InTables
    /\ ~TableSpec.isString
    /\ Len(SetClauses(TableName, TableSpec.columns)) = 0
    /\ tableIdx' = tableIdx + 1
    /\ UNCHANGED <<proceed, config, conn, sent, database, written, exitCode, pc>>
    /\ CliFrame

\* After the last table: conn.end(), '✓ Completed'.
DirectEnd ==
    /\ pc = "direct"
    /\ ~(tableIdx <= Len(Entries(config.tables)))
    /\ conn' = "ended"
    /\ pc' = "completed"
    /\ UNCHANGED <<proceed, config, sent, database, written, exitCode, tableIdx>>
    /\ CliFrame

\* Dump mode with a dump file: the transformed dump is written, gzipped.
WriteDump ==
    /\ pc = "run"
    /\ config.database.mode # "direct"
    /\ config.database.dumpFile # Absent
    /\ written' = Gzip(transformDumpLiterals(
                            readInputDump(Files, config.database.dumpFile),
                            config.tables))
    /\ pc' = "completed"
    /\ UNCHANGED <<proceed, config, conn, sent, database, exitCode, tableIdx>>
    /\ CliFrame

\* Dump mode without dump file: the SQL script is written, gzipped.
WriteSql ==
    /\ pc = "run"
    /\ config.database.mode # "direct"
    /\ config.database.dumpFile = Absent
    /\ written' = Gzip(buildDumpSql(config))
    /\ pc' = "completed"
    /\ UNCHANGED <<proceed, config, conn, sent, database, exitCode, tableIdx>>
    /\ CliFrame

NextCli ==
    \/ PromptYes
    \/ PromptNo
    \/ NoPrompt
    \/ LoadConfig
    \/ LoadFails
    \/ NotImplemented
    \/ Connect
    \/ DirectTruncate
    \/ DirectUpdate
    \/ DirectUpdateFails
    \/ DirectSkip
    \/ DirectEnd
    \/ WriteDump
    \/ WriteSql

SpecCli == InitCli /\ [][NextCli]_vars

(***************************************************************************)
(* Properties of the dump rewrite (specification Spec).                    *)
(***************************************************************************)
\* The iteration of the loop at cursor p, and the statement it finds there.
StepAt(p) == ScanStep(text, p, truncateTables, updateSpec, tableCols)
StatementAt(p) == matchInsertAt(text, p)
TextOf(m) == Slice(text, m.start, m.statementEnd + 1)
HeadOf(m) == Slice(text, m.start, m.valuesStart)
TuplesOf(m) == ParseTuples(Slice(text, m.valuesStart, m.statementEnd))
OrderOf(m) == ColOrderOf(m, tableCols).order
ActionsOf(m) == ColActionsOf(updateSpec, m.table)

\* The loop is about to run an iteration, of the given kind.
InLoop == pc = "scan" /\ i < Len(text)
AtIteration(kind) == InLoop /\ Scanned.kind = kind

\* s ends with suffix.
EndsWith(s, suffix) ==
    /\ Len(s) >= Len(suffix)
    /\ SubSeq(s, Len(s) - Len(suffix) + 1, Len(s)) = suffix

\* The last iteration started at cursor p, was of the given kind and its
\* text is the end of out.
JustDid(kind, p) ==
    /\ pc = "scan"
    /\ p < i
    /\ StepAt(p).kind = kind
    /\ StepAt(p).next = i
    /\ EndsWith(out, StepAt(p).emit)

\* The action of a column is an update.
IsUpdate(action) ==
    /\ action # Undefined
    /\ ~action.isString
    /\ action.action = "update"

\* The columns (as indices into the column order) of statement m that carry
\* an update action.
UpdateColumns(m) ==
    {c \in 1..Len(OrderOf(m)) : IsUpdate(ActionOf(ActionsOf(m), OrderOf(m)[c]))}

\* A statement's terminator as SQL reads it: the first ';' outside string
\* literals at parenthesis depth zero, where a literal ends at a quote that
\* is neither doubled nor escaped by a backslash (the literal syntax that
\* splitValues decodes).  Loop state [i, inStr, level, found].
SqlEndBody(s, st) ==
    IF st.inStr
    THEN IF s[st.i + 1] = BSLASH THEN [st EXCEPT !.i = st.i + 2]
         ELSE IF s[st.i + 1] = QUOTE
         THEN IF At(s, st.i + 1) = QUOTE THEN [st EXCEPT !.i = st.i + 2]
              ELSE [st EXCEPT !.inStr = FALSE, !.i = st.i + 1]
         ELSE [st EXCEPT !.i = st.i + 1]
    ELSE IF s[st.i + 1] = QUOTE THEN [st EXCEPT !.inStr = TRUE, !.i = st.i + 1]
    ELSE IF s[st.i + 1] = LPAREN THEN [st EXCEPT !.level = st.level + 1, !.i = st.i + 1]
    ELSE IF s[st.i + 1] = RPAREN
    THEN [st EXCEPT !.level = IF st.level > 0 THEN st.level - 1 ELSE 0, !.i = st.i + 1]
    ELSE IF s[st.i + 1] = SEMI /\ st.level = 0 THEN [st EXCEPT !.found = TRUE]
    ELSE [st EXCEPT !.i = st.i + 1]

SqlEndExit(s, st) == st.found \/ ~(st.i < Len(s))

HasSqlEnd(s, from) ==
    Loop(SqlEndBody, SqlEndExit, s,
         [i |-> from, inStr |-> FALSE, level |-> 0, found |-> FALSE], Len(s)).found

\* An INSERT ... VALUES head at offset p of s, and the table it names.
HeadAt(s, p) == MatchInsertRegex(s, p)
HeadTable(s, p) == TableOf(Slice(s, HeadAt(s, p).identStart, HeadAt(s, p).identEnd))

\* s holds a terminated INSERT statement into table tb.
HasInsertInto(s, tb) ==
    \E p \in 0..(Len(s) - 1) :
        /\ ~HeadAt(s, p).null
        /\ HeadTable(s, p) = tb
        /\ HasSqlEnd(s, HeadAt(s, p).lastIndex)

\* C1 (truncate completeness): when transformDumpLiterals returns, the text
\* it returns holds no INSERT statement into a table marked 'truncate'.
C1_TruncateCompleteness ==
    pc = "done" => \A tb \in truncateTables : ~HasInsertInto(out, tb)

\* C2 (round trip on untouched tuples): when the loop rewrites a statement
\* none of whose resolved columns carries an update action, every tuple is
\* emitted as its source text: what is appended to out is the statement's
\* head, the source texts of its tuples (joined as transformValuesList joins
\* them) and the terminator.
C2_RoundTripUntouched ==
    [][AtIteration("rewrite")
           /\ ~TuplesOf(StatementAt(i)).bail
           /\ UpdateColumns(StatementAt(i)) = {}
       => out' = out \o HeadOf(StatementAt(i))
                     \o Join(TuplesOf(StatementAt(i)).tuples, <<COMMA, 10>>)
                     \o <<SEMI>>]_vars

\* C3 (unrelated tables): a statement into a table without entry in
\* config.tables, whether its column order resolves (rewrite) or not (keep),
\* is appended to out exactly as it stands in the dump.
C3_UnrelatedByteIdentical ==
    [][(AtIteration("rewrite") \/ AtIteration("keep"))
           /\ StatementAt(i).table \notin DOMAIN tables
       => out' = out \o TextOf(StatementAt(i))]_vars

\* The class of a character: digit, upper, lower or other.
Class(ch) ==
    IF IsDigit(ch) THEN "digit"
    ELSE IF IsUpper(ch) THEN "upper"
    ELSE IF IsLower(ch) THEN "lower"
    ELSE "other"

\* b has the length of a, the class of a at every position, and the very
\* character of a wherever that is not a digit or an ASCII letter.
SameShape(a, b) ==
    /\ Len(b) = Len(a)
    /\ \A p \in 1..Len(a) :
           /\ Class(b[p]) = Class(a[p])
           /\ Class(a[p]) = "other" => b[p] = a[p]

\* The tokens of tuple t of a VALUES list.
TokensOf(values, t) ==
    splitValues(Slice(ParseTuples(values).tuples[t], 1,
                      Len(ParseTuples(values).tuples[t]) - 1))

\* The VALUES list after has the tuples and the tokens of the list before,
\* and the tokens of the columns outside cols are the same.
SameOtherValues(before, after, cols) ==
    /\ Len(ParseTuples(after).tuples) = Len(ParseTuples(before).tuples)
    /\ \A t \in 1..Len(ParseTuples(before).tuples) :
           /\ Len(TokensOf(after, t)) = Len(TokensOf(before, t))
           /\ \A c \in 1..Len(TokensOf(before, t)) :
                  c \notin cols => TokensOf(after, t)[c] = TokensOf(before, t)[c]

\* The statement has an explicit column list, some of its columns have the
\* action update and the others have no action.
ExplicitPartialUpdate(m) ==
    /\ m.hasColumns
    /\ UpdateColumns(m) # {}
    /\ \A c \in 1..Len(OrderOf(m)) :
           c \in UpdateColumns(m) \/ ActionOf(ActionsOf(m), OrderOf(m)[c]) = Undefined

\* What the iteration appended to out.
Appended == SubSeq(out', Len(out) + 1, Len(out'))

\* C7 (Scenario A, rewrite in place): for a statement with an explicit
\* column list where some columns are updated and the others have no
\* action, the emitted statement has the shape of the source statement
\* (same length, same class at every position, every other character
\* unchanged), the same head, and the same values in the other columns.
C7_RewriteInPlace ==
    [][AtIteration("rewrite") /\ ExplicitPartialUpdate(StatementAt(i))
       => /\ SubSeq(out', 1, Len(out)) = out
          /\ SameShape(TextOf(StatementAt(i)), Appended)
          /\ SubSeq(Appended, 1, Len(HeadOf(StatementAt(i)))) = HeadOf(StatementAt(i))
          /\ SameOtherValues(
                 Slice(text, StatementAt(i).valuesStart, StatementAt(i).statementEnd),
                 Slice(Appended, Len(HeadOf(StatementAt(i))), Len(Appended) - 1),
                 UpdateColumns(StatementAt(i)))]_vars

\* The number of tokens of tuple t differs from the length of the column
\* order of statement m.
ArityMismatch(m, t) ==
    Len(splitValues(Slice(t, 1, Len(t) - 1))) # Len(OrderOf(m))

\* Tuple t of statement m as the claim has it emitted.
FailSoft(m, t) ==
    IF ArityMismatch(m, t) THEN t
    ELSE transformSingleTuple(t, m.table, OrderOf(m), ActionsOf(m))

UnterminatedAt(p) ==
    /\ ~HeadAt(text, p).null
    /\ FindStatementEnd(text, HeadAt(text, p).lastIndex) < 0

\* The same with the terminator as SQL reads it.
SqlUnterminatedAt(p) ==
    /\ ~HeadAt(text, p).null
    /\ ~HasSqlEnd(text, HeadAt(text, p).lastIndex)

\* What transformDumpLiterals returns when its loop goes on from cursor p
\* with o pushed so far.
FinalFrom(p, o) ==
    Loop(ScanBody, ScanExit,
         [text |-> text, trunc |-> truncateTables, upd |-> updateSpec,
          cols |-> tableCols],
         [i |-> p, out |-> o], Len(text)).out

\* The offsets after p where matchInsertAt finds a statement.
LaterStatements(p) == {q \in (p + 1)..(Len(text) - 1) : ~StatementAt(q).null}

C10_UnresolvedKeptWhole ==
    [][/\ InLoop
       /\ ~StatementAt(i).null
       /\ StatementAt(i).table \notin truncateTables
       /\ ~StatementAt(i).hasColumns
       /\ StatementAt(i).table \notin DOMAIN tableCols
       => /\ out' = out \o TextOf(StatementAt(i))
          /\ MatchWord(text, i, KwInsert)
          /\ i' = StatementAt(i).statementEnd + 1
          /\ text[i'] = SEMI]_vars

\* The loop has just kept a statement whose column order is unknown.
C10_Witness == \E p \in 0..(Len(text) - 1) : JustDid("keep", p)

(***************************************************************************)
(* Properties of anonymizeByCharClass (specification SpecCore).            *)
(***************************************************************************)
InCall == pc \in {"anon", "anonDone"}

\* C4 (length preservation): the loop appends one character per character
\* read, so that the string returned has the length of the input.
C4_LengthPreserved ==
    /\ InCall => Len(anon) = k
    /\ pc = "anonDone"
       => /\ Len(anon) = Len(input)
          /\ Len(anonymizeByCharClass(input, seedKey)) = Len(input)

\* A call has returned for an input of seven characters, letters and a space.
C4_Witness == pc = "anonDone" /\ Len(input) = 7 /\ anon # input

\* The draws the boundary outputs of the generator give, and the next draw
\* of the generator in its current state.
Draws == {<<0, 0>>, <<H - 1, H - 1>>, MulberryOut(MulberryAdvance(rng))}

\* C5 (character-class preservation): every character appended has the
\* class of the character read, a character of class other is appended as
\* it is, and randomInt stays within [min, max] for the two ranges used.
C5_ClassPreserved ==
    /\ InCall
       => \A p \in 1..Len(anon) :
              /\ Class(anon[p]) = Class(input[p])
              /\ Class(input[p]) = "other" => anon[p] = input[p]
    /\ \A v \in Draws :
           /\ randomInt(v, 0, 9) \in 0..9
           /\ randomInt(v, 0, 25) \in 0..25

\* A call has returned for an input with a character of each class, and
\* has changed the input.
C5_Witness ==
    /\ pc = "anonDone"
    /\ {Class(input[p]) : p \in 1..Len(input)} = {"digit", "upper", "lower", "other"}
    /\ \E p \in 1..Len(input) : anon[p] # input[p]

\* C6 (determinism): a call returns what the first call with the same
\* input and seed key returned, whatever was called in between, and that is
\* the value of the function anonymizeByCharClass.
C6_Deterministic ==
    pc = "anonDone"
        => /\ history[<<input, seedKey>>] = anon
           /\ anon = anonymizeByCharClass(input, seedKey)

\* The second call has returned, for the input and seed key of the first.
C6_Witness ==
    /\ pc = "anonDone"
    /\ calls = 2
    /\ DOMAIN history = {<<input, seedKey>>}
    /\ anon # input

(***************************************************************************)
(* Properties of transformSingleTuple and splitValues (specification       *)
(* SpecTuple).                                                             *)
(***************************************************************************)
\* The character an escape sequence backslash-c denotes in a MySQL string
\* literal.
SqlEscaped(c) ==
    IF c = Ord("n") THEN 10
    ELSE IF c = Ord("t") THEN 9
    ELSE IF c = Ord("r") THEN 13
    ELSE IF c = Ord("0") THEN 0
    ELSE IF c = Ord("b") THEN 8
    ELSE IF c = Ord("Z") THEN 26
    ELSE c

\* The string a literal (its quotes included) denotes: a doubled quote is a
\* quote and a backslash with the character after it an escape sequence.
\* Loop state [i, val].
SqlValueBody(lit, st) ==
    IF lit[st.i + 1] = BSLASH /\ st.i + 2 < Len(lit)
    THEN [i |-> st.i + 2, val |-> Append(st.val, SqlEscaped(lit[st.i + 2]))]
    ELSE IF lit[st.i + 1] = QUOTE
    THEN [i |-> st.i + 2, val |-> Append(st.val, QUOTE)]
    ELSE [i |-> st.i + 1, val |-> Append(st.val, lit[st.i + 1])]

SqlValueExit(lit, st) == ~(st.i < Len(lit) - 1)

SqlValue(lit) ==
    Loop(SqlValueBody, SqlValueExit, lit, [i |-> 1, val |-> <<>>], Len(lit)).val

\* The offset after the closing quote of the literal that opens at offset p
\* of s, or -1 when the literal is not closed.  Loop state [i, closed].
SqlLiteralBody(s, st) ==
    IF s[st.i + 1] = BSLASH THEN [st EXCEPT !.i = st.i + 2]
    ELSE IF s[st.i + 1] = QUOTE
    THEN IF At(s, st.i + 1) = QUOTE THEN [st EXCEPT !.i = st.i + 2]
         ELSE [i |-> st.i + 1, closed |-> TRUE]
    ELSE [st EXCEPT !.i = st.i + 1]

SqlLiteralExit(s, st) == st.closed \/ ~(st.i < Len(s))

SqlLiteralEnd(s, p) ==
    LET st == Loop(SqlLiteralBody, SqlLiteralExit, s,
                   [i |-> p + 1, closed |-> FALSE], Len(s))
    IN  IF st.closed THEN st.i ELSE 0 - 1

\* The token splitValues has just pushed.
LastToken == tokenList'[Len(tokenList')]

\* C11 (lossless escaping): when splitValues decodes a closed string literal
\* the literal it keeps for the output (raw, the value re-encoded by
\* sqlEscape) denotes the string that the literal read from the tuple
\* denotes.
C11_LosslessEscaping ==
    [][SplitQuoted /\ SqlLiteralEnd(Inner, TokenStart) >= 0
       => SqlValue(LastToken.raw)
              = SqlValue(Slice(Inner, TokenStart, SqlLiteralEnd(Inner, TokenStart)))]_vars

\* The statement that holds the one tuple (lit).
StatementOf(lit) ==
    Text("INSERT INTO u VALUES ") \o <<LPAREN>> \o lit \o <<RPAREN, SEMI>>

\* The literal '...' that is written for the value v, in a tuple of a
\* statement, is read again as it was written: matchInsertAt finds the
\* statement with its terminator at the end, transformValuesList finds the
\* one tuple and splitValues the one string token of value v.
ReparsesAsWritten(v) ==
    /\ ~matchInsertAt(StatementOf(Quoted(v)), 0).null
    /\ matchInsertAt(StatementOf(Quoted(v)), 0).statementEnd
           = Len(StatementOf(Quoted(v))) - 1
    /\ ~ParseTuples(<<LPAREN>> \o Quoted(v) \o <<RPAREN>>).bail
    /\ ParseTuples(<<LPAREN>> \o Quoted(v) \o <<RPAREN>>).tuples
           = <<(<<LPAREN>> \o Quoted(v) \o <<RPAREN>>)>>
    /\ splitValues(Quoted(v)) = <<[isString |-> TRUE, value |-> v, raw |-> Quoted(v)]>>

\* C12 (re-encoder round trip): for the value of every string token that
\* splitValues has pushed, the literal that sqlEscape and the quotes make of
\* it is parsed again, by the terminator search, the tuple splitter and the
\* value splitter, as one string token of that value within the same tuple
\* and statement.
C12_ReencodedReparses ==
    \A n \in 1..Len(tokenList) :
        tokenList[n].isString => ReparsesAsWritten(tokenList[n].value)

(***************************************************************************)
(* Further properties of the dump rewrite (specification Spec).            *)
(***************************************************************************)
\* The offset of the terminator, as SQL reads it, of a statement whose
\* VALUES list starts at offset from, or -1.
SqlEnd(s, from) ==
    LET st == Loop(SqlEndBody, SqlEndExit, s,
                   [i |-> from, inStr |-> FALSE, level |-> 0, found |-> FALSE], Len(s))
    IN  IF st.found THEN st.i ELSE 0 - 1

\* The tables of the INSERT statements of s, in the order of the statements:
\* a statement is an INSERT ... VALUES head with the terminator SQL reads,
\* and the next statement is looked for after that terminator.
\* Loop state [i, tabs].
SqlTablesAt(s, st, head) ==
    IF ~head.null /\ SqlEnd(s, IF head.null THEN 0 ELSE head.lastIndex) >= 0
    THEN [i |-> SqlEnd(s, head.lastIndex) + 1,
          tabs |-> Append(st.tabs, TableOf(Slice(s, head.identStart, head.identEnd)))]
    ELSE [st EXCEPT !.i = st.i + 1]

SqlTablesBody(s, st) == SqlTablesAt(s, st, HeadAt(s, st.i))

SqlTablesExit(s, st) == ~(st.i < Len(s))

SqlInsertTables(s) ==
    Loop(SqlTablesBody, SqlTablesExit, s, [i |-> 0, tabs |-> <<>>], Len(s)).tabs

\* The tables of tabs that are not marked 'truncate'.
IsKept(tb) == tb \notin truncateTables
Kept(tabs) == SelectSeq(tabs, IsKept)

\* C13 (statement preservation): when transformDumpLiterals returns, the
\* INSERT statements into tables that are not marked 'truncate' are in the
\* text it returns what they are in the dump: as many, into the same tables,
\* in the same order.
C13_StatementsPreserved ==
    pc = "done" => Kept(SqlInsertTables(out)) = Kept(SqlInsertTables(text))

(***************************************************************************)
(* Further properties of anonymizeByCharClass (specification SpecCore).    *)
(***************************************************************************)
\* C16 (referential integrity): transformSingleTuple calls
\* anonymizeByCharClass with the seed key `${table}.${col}` of the token's
\* column; a call returns for a value what the calls before it returned for
\* the same value, whatever the table and column (the seed key) of each.
C16_SameValueSameSubstitute ==
    pc = "anonDone"
        => \A h \in DOMAIN history : h[1] = input => history[h] = anon

(***************************************************************************)
(* Further properties of the dump rewrite (specification Spec): the        *)
(* statement terminator.                                                   *)
(***************************************************************************)
\* C18 (statement terminator): when the text at the cursor is an INSERT ...
\* VALUES head, matchInsertAt returns as statementEnd the offset of the
\* first ';' after VALUES that is outside every string literal and at
\* parenthesis depth zero, a backslash inside a literal escaping the one
\* character after it, and returns null when there is no such ';'.
C18_TerminatorIsSqlEnd ==
    InLoop /\ ~HeadAt(text, i).null
        => IF SqlEnd(text, HeadAt(text, i).lastIndex) < 0
           THEN StatementAt(i).null
           ELSE /\ ~StatementAt(i).null
                /\ StatementAt(i).statementEnd = SqlEnd(text, HeadAt(text, i).lastIndex)

(***************************************************************************)
(* Further properties of splitValues (specification SpecTuple).            *)
(***************************************************************************)
\* The number of commas of s that are outside string literals and outside
\* nested parentheses.  Loop state [i, inStr, level, commas].
TopCommasBody(s, st) ==
    IF st.inStr
    THEN IF s[st.i + 1] = BSLASH THEN [st EXCEPT !.i = st.i + 2]
         ELSE IF s[st.i + 1] = QUOTE
         THEN IF At(s, st.i + 1) = QUOTE THEN [st EXCEPT !.i = st.i + 2]
              ELSE [st EXCEPT !.inStr = FALSE, !.i = st.i + 1]
         ELSE [st EXCEPT !.i = st.i + 1]
    ELSE IF s[st.i + 1] = QUOTE THEN [st EXCEPT !.inStr = TRUE, !.i = st.i + 1]
    ELSE IF s[st.i + 1] = LPAREN THEN [st EXCEPT !.level = st.level + 1, !.i = st.i + 1]
    ELSE IF s[st.i + 1] = RPAREN THEN [st EXCEPT !.level = st.level - 1, !.i = st.i + 1]
    ELSE IF s[st.i + 1] = COMMA /\ st.level = 0
    THEN [st EXCEPT !.commas = st.commas + 1, !.i = st.i + 1]
    ELSE [st EXCEPT !.i = st.i + 1]

TopCommasExit(s, st) == ~(st.i < Len(s))

TopLevelValues(s) ==
    1 + Loop(TopCommasBody, TopCommasExit, s,
             [i |-> 0, inStr |-> FALSE, level |-> 0, commas |-> 0], Len(s)).commas

\* splitValues has returned.
Tokenized == pc \in {"tokens", "tupleDone"}

\* C19 (value tokenization): splitValues returns one token per top-level
\* value of the tuple, a value being delimited by the commas that are
\* outside string literals and outside nested parentheses.
C19_OneTokenPerValue == Tokenized => Len(tokenList) = TopLevelValues(Inner)

\* What the tuple returned holds for token n: the literal of the substitute
\* when the token is a string literal and its column has the action update,
\* the text of the token otherwise.
Emitted(n) ==
    IF tokenList[n].isString /\ IsUpdate(ActionOf(TupleActions, TupleOrder[n]))
    THEN Quoted(anonymizeByCharClass(tokenList[n].value,
                                     TupleTable \o <<DOT>> \o TupleOrder[n]))
    ELSE tokenList[n].raw

\* C20 (only string literals are transformed): a token that does not start
\* with a quote is pushed as a non-string token whose raw text is the text
\* that stands in the tuple from the start of the token on, and a token that
\* starts with a quote as a string token; when the tuple is rebuilt it holds
\* the raw text of every token but the string tokens of the columns whose
\* action is update, which alone are replaced by the literal of what
\* anonymizeByCharClass returns for their value.
C20_OnlyStringsTransformed ==
    [][/\ SplitBare
          => /\ ~LastToken.isString
             /\ Len(LastToken.raw) > 0
             /\ LastToken.raw
                    = Slice(Inner, TokenStart, TokenStart + Len(LastToken.raw))
       /\ SplitQuoted => LastToken.isString
       /\ TupleRebuild
          => tupleOut' = <<LPAREN>>
                             \o Join([n \in 1..Len(tokenList) |-> Emitted(n)], <<COMMA, 32>>)
                             \o <<RPAREN>>]_vars

\* A tuple has been rebuilt whose second token is not a string literal while
\* its column has the action update, and whose first token is a string
\* literal in a column without that action.
C20_Witness ==
    /\ pc = "tupleDone"
    /\ Len(tokenList) = 2
    /\ ~tokenList[2].isString
    /\ IsUpdate(ActionOf(TupleActions, TupleOrder[2]))
    /\ tokenList[1].isString
    /\ tupleOut = <<LPAREN>> \o tokenList[1].raw \o <<COMMA, 32>> \o tokenList[2].raw
                      \o <<RPAREN>>

(***************************************************************************)
(* Properties of the run command (specification SpecCli).                  *)
(***************************************************************************)
\* C14 (direct mode requires confirmation): a connection is opened and a
\* statement is sent to the database only after the confirmation prompt was
\* answered yes, and after the answer no the command has stopped without
\* loading the config.
C14_DirectNeedsConfirmation ==
    /\ conn # "none" \/ sent # <<>> => proceed = "yes"
    /\ proceed = "no" => pc = "aborted" /\ config = <<>>

\* The columns with the action 'truncate' of the tables whose spec is a
\* column map, as pairs <<table, column>>.
TruncatedColumns(tabs) ==
    {tc \in UNION {{<<tb, col>> : col \in DOMAIN tabs[tb].columns} :
                      tb \in {x \in DOMAIN tabs : ~tabs[x].isString}} :
        /\ tabs[tc[1]].columns[tc[2]].isString
        /\ tabs[tc[1]].columns[tc[2]].value = "truncate"}

\* One of the statements clears column col of table tb.
Clears(statements, tb, col) ==
    \E n \in 1..Len(statements) :
        /\ statements[n].table = tb
        /\ statements[n].sql = "UPDATE"
        /\ \E c \in 1..Len(statements[n].set) : statements[n].set[c].column = col

\* The position of col in the column list of statement m, or 0.
ColumnIndex(m, col) ==
    IF m.hasColumns /\ \E c \in 1..Len(m.columns) : m.columns[c] = col
    THEN CHOOSE c \in 1..Len(m.columns) : m.columns[c] = col
    ELSE 0

\* No tuple of a statement of dump s into table tb that lists column col
\* holds a value in that column: the token there is NULL or ''.
HoldsNoValue(s, tb, col) ==
    \A p \in 0..(Len(s) - 1) :
        LET m == matchInsertAt(s, p)
        IN  ~m.null /\ m.table = tb /\ ColumnIndex(m, col) > 0
            => \A t \in 1..Len(ParseTuples(Slice(s, m.valuesStart, m.statementEnd)).tuples) :
                   LET toks == TokensOf(Slice(s, m.valuesStart, m.statementEnd), t)
                   IN  Len(toks) = Len(m.columns)
                       => toks[ColumnIndex(m, col)].raw \in {Text("NULL"), Text("''")}

\* C15 (column-level truncate): when the command has completed, for every
\* column whose action is 'truncate' in the column map of a table: in direct
\* mode a statement that clears the column was sent, the generated script
\* holds such a statement, and the rewritten dump holds no value in that
\* column.
C15_ColumnTruncateClears ==
    pc = "completed"
        => \A tc \in TruncatedColumns(config.tables) :
               /\ conn = "ended" => Clears(sent, tc[1], tc[2])
               /\ conn = "none" /\ config.database.mode = "dump"
                      /\ config.database.dumpFile = Absent
                  => Clears(Gunzip(written), tc[1], tc[2])
               /\ conn = "none" /\ config.database.mode = "dump"
                      /\ config.database.dumpFile # Absent
                  => HoldsNoValue(Gunzip(written), tc[1], tc[2])

\* The SET clauses of the UPDATE that runDirectMysql sends for the table of
\* the iteration.
ClausesSent == SetClauses(TableName, TableSpec.columns)

\* C17 (the expression generator mirrors the local policy): when
\* runDirectMysql updates a table, every column with a SET clause keeps NULL
\* where it was NULL, and gets elsewhere a value of the length of the
\* original value, with a digit for a digit, a lower case letter for a lower
\* case letter, an upper case letter for an upper case letter and every
\* other character unchanged, which is the one value the expression has
\* for the original value whenever it is evaluated.
C17_ExpressionMirrorsPolicy ==
    [][DirectUpdate
       => \A c \in 1..Len(ClausesSent), r \in 1..Len(database[TableName]) :
              LET col == ClausesSent[c].column
                  old == database[TableName][r][col]
                  new == database'[TableName][r][col]
              IN  IF old = SqlNull THEN new = SqlNull
                  ELSE /\ new # SqlNull
                       /\ SameShape(old, new)
                       /\ \A uuid \in Uuids : EvalExpr(ClausesSent[c].expr, old, uuid) = new]_vars

(***************************************************************************)
(* Properties of the column order and of the scan as a whole               *)
(* (specification Spec).                                                   *)
(***************************************************************************)
\* The column order of statement m as the dump states it: the statement's
\* own column list when it has one, otherwise the columns inferred for its
\* table.
ListedOrInferred(m) == IF m.hasColumns THEN m.columns ELSE tableCols[m.table]

\* Token tok as emitted when the column col of table tb governs it.
GovernedBy(tok, tb, col) ==
    IF ~tok.isString THEN tok.raw
    ELSE IF IsUpdate(ActionOf(ColActionsOf(updateSpec, tb), col))
    THEN Quoted(anonymizeByCharClass(tok.value, tb \o <<DOT>> \o col))
    ELSE Quoted(tok.value)

\* Tuple t of statement m with its k-th token governed by the k-th name of
\* order; a tuple with another number of tokens stays as it is.
Aligned(m, t, toks, order) ==
    IF Len(toks) # Len(order) THEN t
    ELSE <<LPAREN>>
             \o Join([n \in 1..Len(toks) |-> GovernedBy(toks[n], m.table, order[n])],
                     <<COMMA, 32>>)
             \o <<RPAREN>>

AlignedTuple(m, t) ==
    Aligned(m, t, splitValues(Slice(t, 1, Len(t) - 1)), ListedOrInferred(m))

\* C21 (column alignment): when the loop rewrites a statement, the token at
\* index k of every tuple is emitted under the action of the k-th name of the
\* statement's column list when it has one, and of the k-th inferred column
\* of its table only when it has none.
C21_ColumnAlignment ==
    [][AtIteration("rewrite") /\ ~TuplesOf(StatementAt(i)).bail
       => out' = out \o HeadOf(StatementAt(i))
                     \o Join([t \in 1..Len(TuplesOf(StatementAt(i)).tuples) |->
                                 AlignedTuple(StatementAt(i),
                                              TuplesOf(StatementAt(i)).tuples[t])],
                             <<COMMA, 10>>)
                     \o <<SEMI>>]_vars

\* The loop has just rewritten a statement that lists its columns in another
\* order than the CREATE TABLE block of its table, and an update action
\* governs one of them.
C21_Witness ==
    \E p \in 0..(Len(text) - 1) :
        /\ JustDid("rewrite", p)
        /\ StatementAt(p).hasColumns
        /\ StatementAt(p).table \in DOMAIN tableCols
        /\ tableCols[StatementAt(p).table] # StatementAt(p).columns
        /\ Len(tableCols[StatementAt(p).table]) = Len(StatementAt(p).columns)
        /\ UpdateColumns(StatementAt(p)) # {}

\* The CREATE TABLE blocks of a dump as SQL reads them: a block opens at the
\* '(' of a line that starts with CREATE TABLE and a name, and closes at the
\* matching ')'.
IsNotLineFeed(c) == c # 10
LineAt(s, p) == Slice(s, p, RunEnd(IsNotLineFeed, s, p))
LineStarts(s) == {p \in 0..(Len(s) - 1) : p = 0 \/ s[p] = 10}
CreateHeads(s) == {p \in LineStarts(s) : ~MatchCreate(LineAt(s, p)).null}
CreatedTable(s, p) == MatchCreate(LineAt(s, p)).table

\* The offset of the ')' that closes the '(' at offset open, or the length
\* of s.  Loop state [i, level, closed].
BlockCloseBody(s, st) ==
    IF s[st.i + 1] = LPAREN THEN [st EXCEPT !.i = st.i + 1, !.level = st.level + 1]
    ELSE IF s[st.i + 1] = RPAREN /\ st.level > 1
    THEN [st EXCEPT !.i = st.i + 1, !.level = st.level - 1]
    ELSE IF s[st.i + 1] = RPAREN THEN [st EXCEPT !.closed = TRUE]
    ELSE [st EXCEPT !.i = st.i + 1]

BlockCloseExit(s, st) == st.closed \/ ~(st.i < Len(s))

BlockClose(s, open) ==
    Loop(BlockCloseBody, BlockCloseExit, s,
         [i |-> open, level |-> 0, closed |-> FALSE], Len(s)).i

\* The lines inside the block whose head is at p: the text from the first
\* line that starts after the block's '(' up to the block's ')'.
BlockLinesFrom(s, open, close) ==
    IF IndexOf(s, 10, open) < 0 \/ IndexOf(s, 10, open) >= close THEN <<>>
    ELSE Slice(s, IndexOf(s, 10, open) + 1, close)

BlockText(s, p) ==
    BlockLinesFrom(s, IndexOf(s, LPAREN, p), BlockClose(s, IndexOf(s, LPAREN, p)))

IsDeclaration(l) == ~MatchColumnLine(l).null
DeclaredName(l) == MatchColumnLine(l).column

\* The quoted column declarations of the lines of block text b, in order.
Declared(b) ==
    LET decls == SelectSeq(SplitLines(b), IsDeclaration)
    IN  [n \in 1..Len(decls) |-> DeclaredName(decls[n])]

\* p is the head of the last block of its table.
IsLastBlock(s, p) ==
    \A q \in CreateHeads(s) : CreatedTable(s, q) = CreatedTable(s, p) => q <= p

\* C22 (schema inference per block): the map inferTableColumnsFromDump
\* returns has an entry for the table of every CREATE TABLE block of the
\* dump and for no other, and the entry of a table is the sequence of quoted
\* column declarations on the lines between the parentheses of its own block.
C22_ColumnsOfOwnBlock ==
    pc \in {"scan", "done"}
        => /\ DOMAIN tableCols = {CreatedTable(text, p) : p \in CreateHeads(text)}
           /\ \A p \in CreateHeads(text) :
                  IsLastBlock(text, p) /\ CreatedTable(text, p) \in DOMAIN tableCols
                      => tableCols[CreatedTable(text, p)] = Declared(BlockText(text, p))

\* The columns inferred from the text that precedes offset p.
PrecedingCols(p) == inferTableColumnsFromDump(Slice(text, 0, p))

\* C23 (schema inference uses preceding text only): when the statement at
\* the cursor has no column list and its table is not truncated, its column
\* order is the one of the CREATE TABLE block of its table in the text
\* before the statement, and it is unknown when there is no such block there.
C23_OrderFromPrecedingText ==
    /\ InLoop
    /\ ~StatementAt(i).null
    /\ ~StatementAt(i).hasColumns
    /\ StatementAt(i).table \notin truncateTables
    => /\ ColOrderOf(StatementAt(i), tableCols)
              = ColOrderOf(StatementAt(i), PrecedingCols(i))
       /\ StatementAt(i).table \notin DOMAIN PrecedingCols(i) => Scanned.kind = "keep"

\* The text of s outside its INSERT statements, as SQL reads s: a comment
\* runs from -- to the end of its line, a string literal from its opening to
\* its closing quote, and an INSERT statement from an INSERT ... VALUES head
\* outside comments and literals through its terminator.
\* Loop state [i, other].
CommentEnd(s, p) == IF IndexOf(s, 10, p) < 0 THEN Len(s) ELSE IndexOf(s, 10, p) + 1

OtherTextAt(s, st, head) ==
    IF s[st.i + 1] = Ord("-") /\ At(s, st.i + 1) = Ord("-")
    THEN [i |-> CommentEnd(s, st.i),
          other |-> st.other \o Slice(s, st.i, CommentEnd(s, st.i))]
    ELSE IF s[st.i + 1] = QUOTE /\ SqlLiteralEnd(s, st.i) >= 0
    THEN [i |-> SqlLiteralEnd(s, st.i),
          other |-> st.other \o Slice(s, st.i, SqlLiteralEnd(s, st.i))]
    ELSE IF ~head.null /\ SqlEnd(s, IF head.null THEN 0 ELSE head.lastIndex) >= 0
    THEN [st EXCEPT !.i = SqlEnd(s, head.lastIndex) + 1]
    ELSE [i |-> st.i + 1, other |-> Append(st.other, s[st.i + 1])]

OtherTextBody(s, st) == OtherTextAt(s, st, HeadAt(s, st.i))

OtherTextExit(s, st) == ~(st.i < Len(s))

OtherText(s) ==
    Loop(OtherTextBody, OtherTextExit, s, [i |-> 0, other |-> <<>>], Len(s)).other

\* C24 (verbatim copy of non-INSERT text): when transformDumpLiterals
\* returns, the text outside the INSERT statements of what it returns is the
\* text outside the INSERT statements of the dump.
C24_OtherTextVerbatim == pc = "done" => OtherText(out) = OtherText(text)

\* C25 (forward progress and termination): every iteration of the loop
\* moves the cursor forward and keeps it within the text: by one character
\* when matchInsertAt finds no statement at the cursor, to the offset after
\* the terminator when it finds one.  The distance of the cursor to the end
\* of the text thus decreases with every iteration, which bounds their
\* number by the length of the text; the loop is left only with the cursor
\* at the end of the text, and the cursor never moves backward.
C25_ForwardProgress ==
    [][/\ InLoop
          => /\ i' > i
             /\ Len(text) - i' < Len(text) - i
             /\ Len(text) - i' >= 0
             /\ pc' = "scan"
             /\ IF StatementAt(i).null THEN i' = i + 1
                ELSE i' = StatementAt(i).statementEnd + 1 /\ text[i'] = SEMI
       /\ pc = "scan" /\ ~InLoop => i = Len(text) /\ pc' = "done"
       /\ pc' = "done" => i' = Len(text)
       /\ pc \in {"scan", "done"} => i' >= i]_vars

\* The function has returned after iterations that copied characters up to
\* a statement and an iteration that handled the statement.
C25_Witness ==
    /\ pc = "done"
    /\ i = Len(text)
    /\ \E p \in 1..(Len(text) - 1) :
           /\ StepAt(p).kind # "copy"
           /\ \A q \in 0..(p - 1) : StepAt(q).kind = "copy"

\* The action map cfg with the type of every update action replaced by ty.
TypeHints == {"email", "phone", "uuid", "text", "unknown"}
RetypedAction(action, ty) ==
    IF ~action.isString /\ action.action = "update" THEN Update(ty) ELSE action
RetypedColumns(cols, ty) == [c \in DOMAIN cols |-> RetypedAction(cols[c], ty)]
Retyped(cfg, ty) ==
    [tb \in DOMAIN cfg |->
        IF cfg[tb].isString THEN cfg[tb]
        ELSE Columns(RetypedColumns(cfg[tb].columns, ty))]

\* C26 (the dump path ignores the type hint): what transformDumpLiterals
\* returns for the dump and the action map is what it returns for the same
\* dump and the action map with other type strings in its update actions.
C26_TypeHintIgnored ==
    pc = "done" => \A ty \in TypeHints : transformDumpLiterals(text, Retyped(tables, ty)) = out

\* The function has returned after it anonymised a value of a column whose
\* update action has a type, and the action map has update actions of
\* several types.
C26_Witness ==
    /\ pc = "done"
    /\ \A ty \in TypeHints : Retyped(tables, ty) # tables
    /\ \E p \in 0..(Len(text) - 1) :
           /\ \A q \in 0..(p - 1) : StepAt(q).kind = "copy"
           /\ StepAt(p).kind = "rewrite"
           /\ StepAt(p).emit # RewriteStatement(text, StatementAt(p),
                                               OrderOf(StatementAt(p)), <<>>)

\* C27 (bail-out on non-tuple VALUES content): when the loop rewrites a
\* statement in whose VALUES text transformValuesList meets, where a tuple is
\* to start, a character other than '(', the statement is appended to out as
\* it stands in the dump, the tuples found before that character included.
C27_BailOutKeepsStatement ==
    [][AtIteration("rewrite") /\ TuplesOf(StatementAt(i)).bail
       => out' = out \o TextOf(StatementAt(i))]_vars

\* The loop has just rewritten a statement with a clause after its tuples,
\* whose first tuple holds a string in a column that has an update action.
C27_Witness ==
    \E p \in 0..(Len(text) - 1) :
        /\ JustDid("rewrite", p)
        /\ TuplesOf(StatementAt(p)).bail
        /\ Len(TuplesOf(StatementAt(p)).tuples) > 0
        /\ transformSingleTuple(TuplesOf(StatementAt(p)).tuples[1], StatementAt(p).table,
                                OrderOf(StatementAt(p)), ActionsOf(StatementAt(p)))
               # TuplesOf(StatementAt(p)).tuples[1]

====
